---- MODULE Spec2Model ----
(***************************************************************************)
(* Mirrow core: compile(code) = compileAst(parse(tokenize(code))).         *)
(*                                                                         *)
(* Source text is a sequence of one-character strings, so that the lexer   *)
(* scans it character by character as lexer.ts does.  Token values, names  *)
(* and generated output are strings built by concatenation.                *)
(***************************************************************************)
EXTENDS Integers, Sequences, FiniteSets, TLC

\* compile (index.ts): the running call and the process-wide catalog.
VARIABLES code, pc, tokens, ast, outcome, svgKeywordStore, calls, first

\* ATTRIBUTE_VALIDATORS.tuple (parser.ts) applied to a spec and a value.
VARIABLES checked, verdict

\* runMirrow (runner.ts): its options, the file system, the activations of
\* processDirectory, the promise it returned and the lines it logged.
VARIABLES options, disk, frames, status, log

\* The task queue of watch mode (runner.ts): the tasks waiting on the
\* chain, the task that runs, what has happened and what was logged.
VARIABLES waiting, running, trace, logged

compileVars == <<code, pc, tokens, ast, outcome, svgKeywordStore, calls, first>>

validatorVars == <<checked, verdict>>

cliVars == <<options, disk, frames, status, log>>

watchVars == <<waiting, running, trace, logged>>

vars == <<compileVars, validatorVars, cliVars, watchVars>>

(***************************************************************************)
(* Text helpers (JavaScript string primitives used by the sources).        *)
(***************************************************************************)

RECURSIVE Str(_)
\* The string whose characters are cs.
Str(cs) ==
  IF Len(cs) = 0 THEN ""
  ELSE IF Len(cs) = 1 THEN cs[1]
  ELSE LET half == Len(cs) \div 2
       IN Str(SubSeq(cs, 1, half)) \o Str(SubSeq(cs, half + 1, Len(cs)))

RECURSIVE Flatten(_)
\* The concatenation of the sequences of seqs.
Flatten(seqs) ==
  IF Len(seqs) = 0 THEN <<>>
  ELSE IF Len(seqs) = 1 THEN seqs[1]
  ELSE LET half == Len(seqs) \div 2
       IN Flatten(SubSeq(seqs, 1, half)) \o Flatten(SubSeq(seqs, half + 1, Len(seqs)))

\* input[p] for a 0-based index p; "" stands for JavaScript's undefined.
CharAt(input, p) == IF p >= 0 /\ p < Len(input) THEN input[p + 1] ELSE ""

\* input.slice(from, to) for 0-based indices with from <= to <= length.
Slice(input, from, to) == SubSeq(input, from + 1, to)

Digits == {"0", "1", "2", "3", "4", "5", "6", "7", "8", "9"}

LowerLetters ==
  {"a", "b", "c", "d", "e", "f", "g", "h", "i", "j", "k", "l", "m",
   "n", "o", "p", "q", "r", "s", "t", "u", "v", "w", "x", "y", "z"}

UpperLetters ==
  {"A", "B", "C", "D", "E", "F", "G", "H", "I", "J", "K", "L", "M",
   "N", "O", "P", "Q", "R", "S", "T", "U", "V", "W", "X", "Y", "Z"}

validIdentifierTokens == {"_", "-", "#"}

isWhitespace(char) == char \in {" ", "\t", "\r"}

isDigit(char) == char \in Digits

isAlpha(char) == char \in LowerLetters \cup UpperLetters

\* The backtick that delimits a template literal.  SANY cannot read a
\* backtick inside a string literal, so source texts write it as "~".
Backtick == "~"

\* JavaScript's trim() removes these from both ends.
TrimChars == {" ", "\t", "\r", "\n"}


(***************************************************************************)
(* Lexer (lexer.ts).  A lexer state is [position, line, column]; input is  *)
(* passed beside it.  A throwing function returns [ok |-> FALSE, error].   *)
(*                                                                         *)
(* A while loop of the source is While(loop, input, st, n): st holds the   *)
(* variables the loop updates and a flag go, which the loop body clears    *)
(* when the loop's condition fails or the loop returns or throws.  Every   *)
(* iteration consumes at least one character, so MaxSteps(input) bodies    *)
(* are enough; While runs them by halving n.                               *)
(***************************************************************************)

Pos(lex) == [line |-> lex.line, column |-> lex.column]

Ok(v, lex) == [ok |-> TRUE, value |-> v, lex |-> lex]

NoError == [ok |-> TRUE]

LexerError(message, position) ==
  [ok |-> FALSE,
   error |-> [name |-> "LexerError", message |-> message, position |-> position]]

Token(type, value, position) ==
  [type |-> type, value |-> value, position |-> position]

NewLexer == [position |-> 0, line |-> 1, column |-> 1]

advance(input, lex) ==
  IF lex.position < Len(input)
    THEN IF input[lex.position + 1] = "\n"
           THEN [position |-> lex.position + 1, line |-> lex.line + 1, column |-> 1]
           ELSE [position |-> lex.position + 1, line |-> lex.line,
                 column |-> lex.column + 1]
    ELSE lex

MaxSteps(input) == Len(input) + 1

RECURSIVE Call(_, _)
RECURSIVE Body(_, _, _)
RECURSIVE While(_, _, _, _)
\* while (st.go) st = Body(st), for a loop that ends within n iterations:
\* sixteen runs of at most a sixteenth of n iterations each, one after the
\* other, each run starting where the one before stopped.
While(loop, input, st, n) ==
  LET part == (n + 15) \div 16
      s1 == While(loop, input, st, part)
      s2 == While(loop, input, s1, part)
      s3 == While(loop, input, s2, part)
      s4 == While(loop, input, s3, part)
      s5 == While(loop, input, s4, part)
      s6 == While(loop, input, s5, part)
      s7 == While(loop, input, s6, part)
      s8 == While(loop, input, s7, part)
      s9 == While(loop, input, s8, part)
      s10 == While(loop, input, s9, part)
      s11 == While(loop, input, s10, part)
      s12 == While(loop, input, s11, part)
      s13 == While(loop, input, s12, part)
      s14 == While(loop, input, s13, part)
      s15 == While(loop, input, s14, part)
  IN CASE ~st.go -> st
       [] n <= 1 -> Body(loop, input, st)
       [] ~s1.go -> s1
       [] ~s2.go -> s2
       [] ~s3.go -> s3
       [] ~s4.go -> s4
       [] ~s5.go -> s5
       [] ~s6.go -> s6
       [] ~s7.go -> s7
       [] ~s8.go -> s8
       [] ~s9.go -> s9
       [] ~s10.go -> s10
       [] ~s11.go -> s11
       [] ~s12.go -> s12
       [] ~s13.go -> s13
       [] ~s14.go -> s14
       [] ~s15.go -> s15
       [] OTHER -> While(loop, input, s15, part)

\* The state after a nested read r: its end position, or its error.
AfterRead(st, r) ==
  IF r.ok THEN [st EXCEPT !.lex = r.lex]
          ELSE [st EXCEPT !.go = FALSE, !.error = r]

\* The character an escape sequence \c stands for inside a quoted string.
Unescape(c) ==
  CASE c = "n" -> "\n"
    [] c = "t" -> "\t"
    [] c = "r" -> "\r"
    [] OTHER -> c

\* The body of the while loop of readString; st = [go, lex, value, quote].
\* A loop body for which a backslash is a character like any other, so that
\* an escaped quote closes the string: what readStringStep must not be.
readStringStepWithoutEscapes(input, st) ==
  IF st.lex.position < Len(input) /\ CharAt(input, st.lex.position) # st.quote
    THEN [st EXCEPT !.lex = advance(input, st.lex),
                    !.value = Append(@, CharAt(input, st.lex.position))]
    ELSE [st EXCEPT !.go = FALSE]

readStringStep(input, st) ==
  IF st.lex.position < Len(input) /\ CharAt(input, st.lex.position) # st.quote
    THEN LET char == CharAt(input, st.lex.position)
         IN IF char = "\\" /\ st.lex.position + 1 < Len(input)
              THEN [st EXCEPT !.lex = advance(input, advance(input, st.lex)),
                              !.value = Append(@, Unescape(CharAt(input,
                                                     st.lex.position + 1)))]
              ELSE [st EXCEPT !.lex = advance(input, st.lex),
                              !.value = Append(@, char)]
    ELSE [st EXCEPT !.go = FALSE]

readString(input, lex) ==
  LET startPosition == Pos(lex)
      quote == CharAt(input, lex.position)
      r == Call("While", <<"readString", input,
                 [go |-> TRUE, lex |-> advance(input, lex), value |-> <<>>,
                  quote |-> quote], MaxSteps(input)>>)
  IN IF r.lex.position < Len(input)
       THEN Ok(Token("STRING", r.value, startPosition), advance(input, r.lex))
       ELSE LexerError("Unterminated string", startPosition)

\* The condition of the loops that take characters one by one.
Accepts(loop, char) ==
  CASE loop = "readIdentifier" ->
         isAlpha(char) \/ isDigit(char) \/ char \in validIdentifierTokens
    [] loop = "readVariableReference" ->
         isAlpha(char) \/ isDigit(char) \/ char \in {"_", "-"}
    [] loop = "readNumber" -> isDigit(char)
    [] loop = "skipWhitespace" -> isWhitespace(char)
    [] loop = "readComment" -> char # "\n"
    [] loop = "skipNewlines" -> char = "\n"

\* The body of such a loop: value += char; advance().  st = [go, lex, value].
takeCharStep(loop, input, st) ==
  LET char == CharAt(input, st.lex.position)
  IN IF st.lex.position < Len(input) /\ Accepts(loop, char)
       THEN [st EXCEPT !.lex = advance(input, st.lex), !.value = Append(@, char)]
       ELSE [st EXCEPT !.go = FALSE]

takeChars(loop, input, lex, value) ==
  Call("While", <<loop, input, [go |-> TRUE, lex |-> lex, value |-> value], MaxSteps(input)>>)

\* The body of the loop over a /* comment; st = [go, lex, value, closed].
readBlockCommentStep(input, st) ==
  IF st.lex.position < Len(input)
    THEN LET char == CharAt(input, st.lex.position)
         IN IF char = "*" /\ st.lex.position + 1 < Len(input)
                          /\ CharAt(input, st.lex.position + 1) = "/"
              THEN [st EXCEPT !.go = FALSE, !.closed = TRUE,
                              !.lex = advance(input, advance(input, st.lex))]
              ELSE [st EXCEPT !.lex = advance(input, st.lex),
                              !.value = Append(@, char)]
    ELSE [st EXCEPT !.go = FALSE]

readComment(input, lex) ==
  LET startPosition == Pos(lex)
      l1 == advance(input, lex)
      nextChar == CharAt(input, l1.position)
  IN IF l1.position >= Len(input)
       THEN Ok(Token("UNKNOWN", <<"/">>, startPosition), l1)
       ELSE IF nextChar = "/"
         THEN LET r == Call("takeChars", <<"readComment", input, advance(input, l1), <<>>>>)
              IN Ok(Token("SINGLE_LINE_COMMENT", r.value, startPosition), r.lex)
         ELSE IF nextChar = "*"
           THEN LET r == Call("While", <<"readBlockComment", input,
                               [go |-> TRUE, lex |-> advance(input, l1),
                                value |-> <<>>, closed |-> FALSE], MaxSteps(input)>>)
                IN IF r.closed
                     THEN Ok(Token("MULTI_LINE_COMMENT", r.value, startPosition), r.lex)
                     ELSE LexerError("Unterminated multi-line comment", startPosition)
           ELSE Ok(Token("UNKNOWN", <<"/">>, startPosition), l1)

readIdentifier(input, lex) ==
  LET r == Call("takeChars", <<"readIdentifier", input, lex, <<>>>>)
  IN Ok(Token("IDENTIFIER", r.value, Pos(lex)), r.lex)

readVariableReference(input, lex) ==
  LET startPosition == Pos(lex)
      l1 == advance(input, lex)
      firstChar == CharAt(input, l1.position)
  IN IF l1.position < Len(input)
       THEN IF isAlpha(firstChar) \/ firstChar = "_"
              THEN LET r == Call("takeChars", <<"readVariableReference", input, l1, <<"$">>>>)
                   IN Ok(Token("DOLLAR", r.value, startPosition), r.lex)
              ELSE LexerError(
                     "Invalid variable reference: variable name must start with a letter or underscore",
                     startPosition)
       ELSE LexerError("Unexpected end of input after '$'", startPosition)

readNumber(input, lex) ==
  LET startPosition == Pos(lex)
      \* a '-' is taken only at the initial position
      sign == IF CharAt(input, lex.position) = "-"
                THEN [lex |-> advance(input, lex), value |-> <<"-">>]
                ELSE [lex |-> lex, value |-> <<>>]
      int == Call("takeChars", <<"readNumber", input, sign.lex, sign.value>>)
      frac == IF int.lex.position < Len(input) /\ CharAt(input, int.lex.position) = "."
                THEN Call("takeChars", <<"readNumber", input, advance(input, int.lex),
                               Append(int.value, ".")>>)
                ELSE int
  IN Ok(Token("NUMBER", frac.value, startPosition), frac.lex)

skipWhitespace(input, lex) ==
  LET r == Call("takeChars", <<"skipWhitespace", input, lex, <<>>>>)
  IN Ok(Token("WHITESPACE", r.value, Pos(lex)), r.lex)

(***************************************************************************)
(* Balanced-brace block capture (readTemplateRaw and readBlock).           *)
(***************************************************************************)

RECURSIVE readTemplateRaw(_, _)

\* The body of the loop over a ${ ... } expression of a template literal;
\* st = [go, lex, exprDepth, error].
templateExprStep(input, st) ==
  IF st.lex.position < Len(input) /\ st.exprDepth > 0
    THEN LET c == CharAt(input, st.lex.position)
             c1 == CharAt(input, st.lex.position + 1)
         IN IF c = "'" \/ c = "\"" THEN AfterRead(st, Call("readString", <<input, st.lex>>))
            ELSE IF c = Backtick THEN AfterRead(st, Call("readTemplateRaw", <<input, st.lex>>))
            ELSE IF c = "/" /\ (c1 = "/" \/ c1 = "*")
              THEN AfterRead(st, Call("readComment", <<input, st.lex>>))
            ELSE IF c = "{"
              THEN [st EXCEPT !.lex = advance(input, st.lex), !.exprDepth = @ + 1]
            ELSE IF c = "}"
              THEN [st EXCEPT !.lex = advance(input, st.lex), !.exprDepth = @ - 1]
            ELSE [st EXCEPT !.lex = advance(input, st.lex)]
    ELSE [st EXCEPT !.go = FALSE]

\* The body of the outer loop of readTemplateRaw; st = [go, lex, error].
templateStep(input, st) ==
  IF st.lex.position < Len(input)
    THEN LET ch == CharAt(input, st.lex.position)
         IN IF ch = "\\"
              THEN LET l1 == advance(input, st.lex)
                   IN [st EXCEPT !.lex = IF l1.position < Len(input)
                                           THEN advance(input, l1) ELSE l1]
            ELSE IF ch = "$" /\ CharAt(input, st.lex.position + 1) = "{"
              THEN LET r == Call("While", <<"templateExpr", input,
                                  [go |-> TRUE,
                                   lex |-> advance(input, advance(input, st.lex)),
                                   exprDepth |-> 1, error |-> NoError],
                                  MaxSteps(input)>>)
                   IN IF r.error.ok THEN [st EXCEPT !.lex = r.lex]
                                    ELSE [st EXCEPT !.go = FALSE, !.error = r.error]
            ELSE IF ch = Backtick
              THEN [st EXCEPT !.go = FALSE, !.lex = advance(input, st.lex)]
            ELSE [st EXCEPT !.lex = advance(input, st.lex)]
    ELSE [st EXCEPT !.go = FALSE]

readTemplateRaw(input, lex) ==
  IF CharAt(input, lex.position) # Backtick
    THEN LexerError("readTemplateRaw called but current char is not a backtick", Pos(lex))
    ELSE LET startIdx == lex.position
             r == Call("While", <<"template", input,
                        [go |-> TRUE, lex |-> advance(input, lex), error |-> NoError],
                        MaxSteps(input)>>)
         IN IF ~r.error.ok THEN r.error
            ELSE IF r.lex.position >= Len(input)
                    /\ CharAt(input, r.lex.position - 1) # Backtick
              THEN LexerError("Unterminated template literal", Pos(r.lex))
              ELSE Ok(Slice(input, startIdx, r.lex.position), r.lex)

\* A loop body that counts every brace, those of strings, templates and
\* comments included: what readBlockStep must not be.
readBlockStepCountingAll(input, st) ==
  IF st.lex.position < Len(input)
    THEN LET ch == CharAt(input, st.lex.position)
         IN IF ch = "{"
              THEN [st EXCEPT !.lex = advance(input, st.lex), !.depth = @ + 1]
            ELSE IF ch = "}"
              THEN IF st.depth - 1 = 0
                     THEN [st EXCEPT !.go = FALSE, !.closed = TRUE, !.depth = 0,
                                     !.lex = advance(input, st.lex)]
                     ELSE [st EXCEPT !.lex = advance(input, st.lex), !.depth = @ - 1]
            ELSE [st EXCEPT !.lex = advance(input, st.lex)]
    ELSE [st EXCEPT !.go = FALSE]

\* The body of the while loop of readBlock; st = [go, lex, depth, closed, error].
readBlockStep(input, st) ==
  IF st.lex.position < Len(input)
    THEN LET ch == CharAt(input, st.lex.position)
             ch1 == CharAt(input, st.lex.position + 1)
         IN IF ch = "\"" \/ ch = "'" THEN AfterRead(st, Call("readString", <<input, st.lex>>))
            ELSE IF ch = Backtick THEN AfterRead(st, Call("readTemplateRaw", <<input, st.lex>>))
            ELSE IF ch = "/" /\ (ch1 = "/" \/ ch1 = "*")
              THEN AfterRead(st, Call("readComment", <<input, st.lex>>))
            ELSE IF ch = "{"
              THEN [st EXCEPT !.lex = advance(input, st.lex), !.depth = @ + 1]
            ELSE IF ch = "}"
              THEN IF st.depth - 1 = 0
                     THEN [st EXCEPT !.go = FALSE, !.closed = TRUE, !.depth = 0,
                                     !.lex = advance(input, st.lex)]
                     ELSE [st EXCEPT !.lex = advance(input, st.lex), !.depth = @ - 1]
            ELSE [st EXCEPT !.lex = advance(input, st.lex)]
    ELSE [st EXCEPT !.go = FALSE]

readBlock(input, lex) ==
  IF CharAt(input, lex.position) # "{"
    THEN LexerError("readBlock called but current char is not '{'", Pos(lex))
    ELSE LET startIdx == lex.position
             startPosition == Pos(lex)
             r == Call("While", <<"readBlock", input,
                        [go |-> TRUE, lex |-> advance(input, lex), depth |-> 1,
                         closed |-> FALSE, error |-> NoError], MaxSteps(input)>>)
         IN IF ~r.error.ok THEN r.error
            ELSE IF r.closed
              THEN Ok(Token("BLOCK", Slice(input, startIdx, r.lex.position),
                            startPosition), r.lex)
              ELSE LexerError("Unterminated block", startPosition)

(***************************************************************************)
(* Lexer.nextToken and Lexer.tokenize.                                     *)
(***************************************************************************)

\* while (char === "\n") advance
skipNewlines(input, lex) == Call("takeChars", <<"skipNewlines", input, lex, <<>>>>).lex

PunctuationType(char) ==
  CASE char = "@" -> "AT"
    [] char = ":" -> "COLON"
    [] char = "=" -> "EQUALS"
    [] char = "," -> "COMMA"
    [] char = "(" -> "LEFT_PAREN"
    [] char = ")" -> "RIGHT_PAREN"
    [] char = "[" -> "LEFT_BRACKET"
    [] char = "]" -> "RIGHT_BRACKET"
    [] char = "}" -> "RIGHT_BRACE"
    [] OTHER -> "UNKNOWN"

\* What nextToken returns at the end of input (null).
NullToken == [type |-> "null"]

nextToken(input, lex0) ==
  IF lex0.position >= Len(input) THEN Ok(NullToken, lex0)
  ELSE
    LET lex == skipNewlines(input, lex0)
        char == CharAt(input, lex.position)
        nextChar == CharAt(input, lex.position + 1)
        thirdChar == CharAt(input, lex.position + 2)
    IN IF char = "" THEN Ok(NullToken, lex)
       ELSE IF isWhitespace(char) THEN skipWhitespace(input, lex)
       ELSE IF char = "\"" \/ char = "'" THEN Call("readString", <<input, lex>>)
       ELSE IF isDigit(char) THEN Call("readNumber", <<input, lex>>)
       ELSE IF char = "-" /\ nextChar # ""
               /\ (isDigit(nextChar)
                   \/ (nextChar = "." /\ thirdChar # "" /\ isDigit(thirdChar)))
         THEN Call("readNumber", <<input, lex>>)
       ELSE IF char = "-" /\ nextChar # ""
               /\ (isAlpha(nextChar) \/ isDigit(nextChar)
                   \/ nextChar \in validIdentifierTokens)
         THEN readIdentifier(input, lex)
       ELSE IF char = "$" THEN Call("readVariableReference", <<input, lex>>)
       ELSE IF isAlpha(char) \/ char \in validIdentifierTokens
         THEN readIdentifier(input, lex)
       ELSE IF char = "{" THEN Call("readBlock", <<input, lex>>)
       ELSE IF char = "/" THEN Call("readComment", <<input, lex>>)
       ELSE Ok(Token(PunctuationType(char), <<char>>, Pos(lex)), advance(input, lex))

DiscardedTypes == {"WHITESPACE", "SINGLE_LINE_COMMENT", "MULTI_LINE_COMMENT"}

\* The loop body without the filter: every token that nextToken returns is
\* pushed.
tokenizeStepKeepingAll(input, st) ==
  LET r == Call("nextToken", <<input, st.lex>>)
  IN IF ~r.ok THEN [st EXCEPT !.go = FALSE, !.error = r]
     ELSE IF r.value.type = "null"
       THEN [st EXCEPT !.go = FALSE, !.lex = r.lex,
                       !.tokens = Append(@, Token("EOF", <<>>, Pos(r.lex)))]
       ELSE [st EXCEPT !.lex = r.lex, !.tokens = Append(@, r.value)]

\* The body of the while (true) loop of Lexer.tokenize;
\* st = [go, lex, tokens, error].
tokenizeStep(input, st) ==
  LET r == Call("nextToken", <<input, st.lex>>)
  IN IF ~r.ok THEN [st EXCEPT !.go = FALSE, !.error = r]
     ELSE IF r.value.type = "null"
       THEN [st EXCEPT !.go = FALSE, !.lex = r.lex,
                       !.tokens = Append(@, Token("EOF", <<>>, Pos(r.lex)))]
       ELSE [st EXCEPT !.lex = r.lex,
                       !.tokens = IF r.value.type \in DiscardedTypes
                                    THEN @ ELSE Append(@, r.value)]

\* tokenize(input): [ok |-> TRUE, value |-> tokens] or [ok |-> FALSE, error].
tokenize(input) ==
  LET r == Call("While", <<"tokenize", input,
                 [go |-> TRUE, lex |-> NewLexer, tokens |-> <<>>, error |-> NoError],
                 MaxSteps(input)>>)
  IN IF r.error.ok THEN Ok(r.tokens, r.lex) ELSE r.error

(***************************************************************************)
(* Attribute specs (attribute-spec.ts) and the keyword catalog             *)
(* (keywords.ts, svg-attributes.ts).  The catalog holds the elements the   *)
(* source texts below use, each with the attribute groups of the source.   *)
(***************************************************************************)

\* produce transforms, as data: "keys" gives the i-th value to the i-th key,
\* "join" writes the values separated by single spaces to one key.
NoProduce == [kind |-> "none", keys |-> <<>>]

produceNumberPair(firstKey, secondKey) ==
  [kind |-> "keys", keys |-> <<firstKey, secondKey>>]

produceNumberTriple(firstKey, secondKey, thirdKey) ==
  [kind |-> "keys", keys |-> <<firstKey, secondKey, thirdKey>>]

produceScalar(key) == [kind |-> "keys", keys |-> <<key>>]

\* (value) => ({ [target]: value })
produceRename(target) == [kind |-> "keys", keys |-> <<target>>]

\* ([a, b, ...]) => ({ key: `${a} ${b} ...` })
produceJoined(key) == [kind |-> "join", keys |-> <<key>>]

AttributeSpec(name, type, required, length, itemTypes, validator, produce) ==
  [name |-> name, type |-> type, required |-> required, length |-> length,
   itemTypes |-> itemTypes, validator |-> validator, produce |-> produce]

\* numberAttr: the default validator is typeof value === "number".
numberAttr(name, required, produce) ==
  AttributeSpec(name, "number", required, 0, <<>>, "isNumber", produce)

\* stringAttr: the default validator is typeof value === "string".
stringAttr(name, required, produce) ==
  AttributeSpec(name, "string", required, 0, <<>>, "isString", produce)

\* booleanAttr: the default validator is typeof value === "boolean".
booleanAttr(name, required, produce) ==
  AttributeSpec(name, "boolean", required, 0, <<>>, "isBoolean", produce)

\* tupleAttr without a validator option: the all-numbers validator is
\* installed when there are no item types or every item type is "number".
tupleAttr(name, length, required, itemTypes, produce) ==
  AttributeSpec(name, "tuple", required, length, itemTypes,
                IF \A i \in 1..Len(itemTypes) : itemTypes[i] = "number"
                  THEN "isNumberTuple" ELSE "none",
                produce)

\* tupleAttr with a validator option: the validator of the options is kept,
\* and the all-numbers validator is not installed.  "rejectEvery" stands for
\* a validator that returns false for every value.
tupleAttrWithValidator(name, length, required, itemTypes, validator) ==
  AttributeSpec(name, "tuple", required, length, itemTypes, validator, NoProduce)

attributeNameMap ==
  [alignmentBaseline |-> "alignment-baseline", autoReverse |-> "autoreverse",
   baselineShift |-> "baseline-shift", clipPath |-> "clip-path",
   clipRule |-> "clip-rule", colorInterpolation |-> "color-interpolation",
   colorInterpolationFilters |-> "color-interpolation-filters",
   colorRendering |-> "color-rendering", crossOrigin |-> "crossorigin",
   dominantBaseline |-> "dominant-baseline", fetchPriority |-> "fetchpriority",
   fillOpacity |-> "fill-opacity", fillRule |-> "fill-rule",
   floodColor |-> "flood-color", floodOpacity |-> "flood-opacity",
   fontFamily |-> "font-family", fontFeatureSettings |-> "font-feature-settings",
   fontSize |-> "font-size", fontSizeAdjust |-> "font-size-adjust",
   fontStretch |-> "font-stretch", fontStyle |-> "font-style",
   fontVariant |-> "font-variant",
   fontVariationSettings |-> "font-variation-settings",
   fontWeight |-> "font-weight",
   glyphOrientationHorizontal |-> "glyph-orientation-horizontal",
   glyphOrientationVertical |-> "glyph-orientation-vertical",
   imageRendering |-> "image-rendering", letterSpacing |-> "letter-spacing",
   lightingColor |-> "lighting-color", markerEnd |-> "marker-end",
   markerMid |-> "marker-mid", markerStart |-> "marker-start",
   maskType |-> "mask-type", paintOrder |-> "paint-order",
   pointerEvents |-> "pointer-events", referrerPolicy |-> "referrerpolicy",
   shapeRendering |-> "shape-rendering", stopColor |-> "stop-color",
   stopOpacity |-> "stop-opacity", strokeDasharray |-> "stroke-dasharray",
   strokeDashoffset |-> "stroke-dashoffset", strokeLinecap |-> "stroke-linecap",
   strokeLinejoin |-> "stroke-linejoin", strokeMiterlimit |-> "stroke-miterlimit",
   strokeOpacity |-> "stroke-opacity", strokeWidth |-> "stroke-width",
   tabIndex |-> "tabindex", textAnchor |-> "text-anchor",
   textRendering |-> "text-rendering", unicodeBidi |-> "unicode-bidi",
   vectorEffect |-> "vector-effect", wordSpacing |-> "word-spacing",
   writingMode |-> "writing-mode", xlinkHref |-> "xlink:href",
   xmlBase |-> "xml:base", xmlLang |-> "xml:lang", xmlSpace |-> "xml:space",
   xmlnsXlink |-> "xmlns:xlink"]

applyNameMapping(spec) ==
  IF spec.type = "tuple" \/ spec.produce.kind # "none" THEN spec
  ELSE IF spec.name \notin DOMAIN attributeNameMap THEN spec
  ELSE [spec EXCEPT !.produce = produceRename(attributeNameMap[spec.name])]

createNumberAttr(name) == applyNameMapping(numberAttr(name, FALSE, NoProduce))

createNumberAttrWith(name, required, produce) ==
  applyNameMapping(numberAttr(name, required, produce))

createStringAttr(name) == applyNameMapping(stringAttr(name, FALSE, NoProduce))

createStringAttrWith(name, required, produce) ==
  applyNameMapping(stringAttr(name, required, produce))

createBooleanAttr(name) == applyNameMapping(booleanAttr(name, FALSE, NoProduce))

createTupleAttr(name, length, required, itemTypes, produce) ==
  tupleAttr(name, length, required, itemTypes, produce)

\* The index of the spec named name in specs, or 0.
\* combineAttributes(...groups), groups given as a sequence of groups:
\* normalized.set(attribute.name, attribute) for each attribute in turn, so
\* a name keeps the place of its first occurrence and the spec of its last.
combineAttributes(groups) ==
  LET all == Flatten(groups)
      firsts == {i \in 1..Len(all) : \A j \in 1..(i - 1) : all[j].name # all[i].name}
      last(i) == CHOOSE j \in 1..Len(all) :
                   /\ all[j].name = all[i].name
                   /\ \A k \in (j + 1)..Len(all) : all[k].name # all[i].name
      nth(k) == CHOOSE i \in firsts : Cardinality({j \in firsts : j < i}) = k - 1
  IN [k \in 1..Cardinality(firsts) |-> all[last(nth(k))]]

coreAttributes ==
  <<createStringAttr("id"), createStringAttr("class"), createStringAttr("style"),
    createStringAttr("lang"), createStringAttr("xmlBase"),
    createStringAttr("xmlLang"), createStringAttr("xmlSpace"),
    createNumberAttr("tabIndex")>>

conditionalProcessingAttributes ==
  <<createStringAttr("requiredExtensions"), createStringAttr("requiredFeatures"),
    createStringAttr("systemLanguage")>>

referencingAttributes == <<createStringAttr("href"), createStringAttr("xlinkHref")>>

paintAttributes ==
  <<createStringAttr("fill"), createNumberAttr("fillOpacity"),
    createStringAttr("fillRule"), createStringAttr("stroke"),
    createNumberAttr("strokeWidth"), createNumberAttr("strokeOpacity"),
    createStringAttr("strokeLinecap"), createStringAttr("strokeLinejoin"),
    createNumberAttr("strokeMiterlimit"), createStringAttr("strokeDasharray"),
    createNumberAttr("strokeDashoffset")>>

graphicalEffectAttributes ==
  <<createNumberAttr("opacity"), createStringAttr("transform"),
    createStringAttr("filter"), createStringAttr("mask"),
    createStringAttr("clipPath"), createStringAttr("clipRule"),
    createStringAttr("cursor"), createStringAttr("pointerEvents"),
    createStringAttr("display"), createStringAttr("visibility"),
    createStringAttr("color"), createStringAttr("colorInterpolation"),
    createStringAttr("colorInterpolationFilters"),
    createStringAttr("colorRendering"), createStringAttr("imageRendering"),
    createStringAttr("vectorEffect"), createStringAttr("paintOrder")>>

markerReferenceAttributes ==
  <<createStringAttr("markerStart"), createStringAttr("markerMid"),
    createStringAttr("markerEnd")>>

graphicsElementAttributes ==
  combineAttributes(<<coreAttributes, conditionalProcessingAttributes,
                      paintAttributes, graphicalEffectAttributes,
                      markerReferenceAttributes>>)

textLayoutAttributes ==
  <<createStringAttr("textAnchor"), createStringAttr("alignmentBaseline"),
    createStringAttr("baselineShift"), createStringAttr("dominantBaseline"),
    createStringAttr("letterSpacing"), createStringAttr("wordSpacing"),
    createStringAttr("kerning"), createStringAttr("direction"),
    createStringAttr("unicodeBidi"), createStringAttr("writingMode"),
    createStringAttr("glyphOrientationVertical"),
    createStringAttr("glyphOrientationHorizontal"),
    createStringAttr("textRendering"), createStringAttr("fontFamily"),
    createNumberAttr("fontSize"), createNumberAttr("fontSizeAdjust"),
    createStringAttr("fontStretch"), createStringAttr("fontStyle"),
    createStringAttr("fontVariant"), createStringAttr("fontWeight"),
    createStringAttr("fontFeatureSettings"),
    createStringAttr("fontVariationSettings")>>

textPositioningAttributes ==
  <<createTupleAttr("at", 2, FALSE, <<>>, produceNumberPair("x", "y")),
    createNumberAttr("dx"), createNumberAttr("dy"), createStringAttr("rotate"),
    createNumberAttr("textLength"), createStringAttr("lengthAdjust")>>

textContainerAttributes ==
  combineAttributes(<<graphicsElementAttributes, textLayoutAttributes>>)

textElementAttributes ==
  combineAttributes(<<textContainerAttributes, textPositioningAttributes>>)

animationTimingAttributes ==
  <<createStringAttr("begin"), createStringAttr("dur"), createStringAttr("end"),
    createStringAttr("min"), createStringAttr("max"), createStringAttr("restart"),
    createNumberAttrWith("repeat", FALSE, produceRename("repeatCount")),
    createStringAttr("repeatDur"), createStringAttr("fill")>>

animationAttributeTargeting ==
  <<createStringAttrWith("prop", FALSE, produceRename("attributeName")),
    createStringAttr("attributeType")>>

animationValueAttributes ==
  <<createStringAttr("calcMode"), createStringAttr("values"),
    createStringAttr("keyTimes"), createStringAttr("keySplines"),
    createNumberAttr("from"), createNumberAttr("to"), createNumberAttr("by"),
    createStringAttr("additive"), createStringAttr("accumulate")>>

animationPlaybackAttributes ==
  <<createNumberAttr("accelerate"), createNumberAttr("decelerate"),
    createBooleanAttr("autoReverse")>>

animationCoreAttributes ==
  combineAttributes(<<coreAttributes, referencingAttributes,
                      animationTimingAttributes, animationAttributeTargeting>>)

pathDataAttribute == stringAttr("data", TRUE, produceRename("d"))

\* svgKeywordAttributes, for the elements of the model.
svgKeywordAttributes ==
  [a |-> combineAttributes(<<graphicsElementAttributes, referencingAttributes,
         <<createStringAttr("target"), createStringAttr("download"),
           createStringAttr("rel"), createStringAttr("ping"),
           createStringAttr("referrerPolicy"), createStringAttr("hreflang"),
           createStringAttr("type")>> >>),
   animate |-> combineAttributes(<<animationCoreAttributes,
         animationValueAttributes, animationPlaybackAttributes>>),
   circle |-> combineAttributes(<<graphicsElementAttributes,
         <<createTupleAttr("at", 2, FALSE, <<>>, produceNumberPair("cx", "cy")),
           createNumberAttrWith("r", TRUE, produceScalar("r")),
           createNumberAttr("pathLength"), createBooleanAttr("filled")>> >>),
   feSpotLight |-> combineAttributes(<<coreAttributes,
         <<createTupleAttr("at", 3, FALSE, <<>>,
                           produceNumberTriple("x", "y", "z")),
           createTupleAttr("pointsAt", 3, FALSE, <<>>,
                           produceNumberTriple("pointsAtX", "pointsAtY", "pointsAtZ")),
           createNumberAttr("specularExponent"),
           createNumberAttr("limitingConeAngle")>> >>),
   foreignObject |-> combineAttributes(<<graphicsElementAttributes,
         <<createTupleAttr("at", 2, FALSE, <<>>, produceNumberPair("x", "y")),
           createTupleAttr("size", 2, FALSE, <<>>,
                           produceNumberPair("width", "height"))>> >>),
   g |-> graphicsElementAttributes,
   line |-> combineAttributes(<<graphicsElementAttributes,
         <<createTupleAttr("from", 2, TRUE, <<>>, produceNumberPair("x1", "y1")),
           createTupleAttr("to", 2, TRUE, <<>>, produceNumberPair("x2", "y2")),
           createNumberAttr("pathLength"),
           createStringAttrWith("stroke", TRUE, NoProduce)>> >>),
   path |-> combineAttributes(<<graphicsElementAttributes,
         <<pathDataAttribute, createStringAttr("d"),
           createNumberAttr("pathLength")>> >>),
   rect |-> combineAttributes(<<graphicsElementAttributes,
         <<createTupleAttr("at", 2, FALSE, <<>>, produceNumberPair("x", "y")),
           createTupleAttr("size", 2, TRUE, <<>>,
                           produceNumberPair("width", "height")),
           createTupleAttr("radius", 2, FALSE, <<>>, produceNumberPair("rx", "ry")),
           createNumberAttr("pathLength")>> >>),
   script |-> combineAttributes(<<coreAttributes, referencingAttributes,
         <<createStringAttr("type"), createStringAttr("crossOrigin"),
           createStringAttr("referrerPolicy")>> >>),
   style |-> combineAttributes(<<coreAttributes,
         <<createStringAttr("type"), createStringAttr("media"),
           createStringAttr("title"), createStringAttr("nonce")>> >>),
   svg |-> combineAttributes(<<graphicsElementAttributes,
         <<createTupleAttr("size", 2, FALSE, <<>>,
                           produceNumberPair("width", "height")),
           createTupleAttr("box", 4, FALSE, <<>>, produceJoined("viewBox")),
           createTupleAttr("preserve", 2, FALSE, <<"identifier", "identifier">>,
                           produceJoined("preserveAspectRatio")),
           createTupleAttr("at", 2, FALSE, <<>>, produceNumberPair("x", "y")),
           createStringAttr("xmlns"), createStringAttr("xmlnsXlink"),
           createStringAttr("version"), createStringAttr("baseProfile"),
           createStringAttr("contentScriptType"),
           createStringAttr("contentStyleType")>> >>),
   text |-> textElementAttributes]

animationElements == {"animate", "animateMotion", "animateTransform", "set", "discard"}

descriptiveElements == {"desc", "metadata", "title"}

geometryElements ==
  {"circle", "ellipse", "line", "path", "polygon", "polyline", "rect"}

textContainerElements == {"text"}

textSpanElements == {"tspan", "textPath"}

textContentElements == {"text", "tspan", "textPath"}

\* svgKeywordChildren, for the elements of the model: the set of allowed
\* child names and the allowAnyChild flag.  An element without an entry
\* (animate, script, style) allows no child.
svgKeywordChildren ==
  [a |-> [allowAnyChild |-> FALSE,
          children |-> animationElements \cup descriptiveElements
                       \cup geometryElements \cup textContainerElements
                       \cup textSpanElements
                       \cup {"image", "use", "g", "svg", "switch", "foreignObject"}],
   circle |-> [allowAnyChild |-> FALSE,
               children |-> animationElements \cup descriptiveElements],
   feSpotLight |-> [allowAnyChild |-> FALSE, children |-> {}],
   foreignObject |-> [allowAnyChild |-> TRUE, children |-> {}],
   g |-> [allowAnyChild |-> FALSE,
          children |-> animationElements \cup descriptiveElements
                       \cup geometryElements \cup textContainerElements
                       \cup {"image", "use", "g", "svg", "switch", "a",
                             "foreignObject"}],
   line |-> [allowAnyChild |-> FALSE,
             children |-> animationElements \cup descriptiveElements],
   path |-> [allowAnyChild |-> FALSE,
             children |-> animationElements \cup descriptiveElements],
   rect |-> [allowAnyChild |-> FALSE,
             children |-> animationElements \cup descriptiveElements],
   svg |-> [allowAnyChild |-> FALSE,
            children |-> animationElements \cup descriptiveElements
                         \cup geometryElements \cup textContainerElements
                         \cup {"image", "use", "g", "svg", "a", "symbol", "marker",
                               "mask", "pattern", "clipPath", "defs",
                               "linearGradient", "radialGradient", "filter",
                               "foreignObject", "style", "script", "switch",
                               "view"}],
   text |-> [allowAnyChild |-> FALSE,
             children |-> animationElements \cup descriptiveElements
                          \cup {"a", "tspan", "textPath"}]]

\* The element names of the model, a subset of the svgKeywords list.
svgKeywords ==
  {"a", "animate", "circle", "feSpotLight", "foreignObject", "g", "line", "path",
   "rect", "script", "style", "svg", "text"}

\* new Keyword(name, attributes, children, {allowAnyChild, allowTextContent})
Keyword(name) ==
  [name |-> name,
   attributes |-> svgKeywordAttributes[name],
   allowedChildren |-> IF name \in DOMAIN svgKeywordChildren
                         THEN svgKeywordChildren[name].children ELSE {},
   allowsAnyChild |-> IF name \in DOMAIN svgKeywordChildren
                        THEN svgKeywordChildren[name].allowAnyChild ELSE FALSE,
   allowsTextContent |-> name \in textContentElements]

\* The catalog once built: a function from element name to Keyword.
BuiltKeywordStore == [name \in svgKeywords |-> Call("Keyword", <<name>>)]

\* The empty svgKeywordStore of a fresh process.
EmptyKeywordStore == [name \in {} |-> name]

\* getSvgKeywords(): what it returns, given the current svgKeywordStore.
\* The store is filled on the first call and returned as it is afterwards.
getSvgKeywords ==
  IF DOMAIN svgKeywordStore = {} THEN BuiltKeywordStore ELSE svgKeywordStore

\* The index of the spec called name in specs, 0 if there is none.
SpecIndex(specs, name) ==
  IF \E i \in 1..Len(specs) : specs[i].name = name
    THEN CHOOSE i \in 1..Len(specs) : specs[i].name = name
    ELSE 0

\* A lookup that finds a string attribute under every name: what
\* getAttributeSpec must not be.
getSpecOfAnyName(keyword, name) ==
  LET i == SpecIndex(keyword.attributes, name)
  IN IF i = 0 THEN stringAttr(name, FALSE, NoProduce) ELSE keyword.attributes[i]

\* Keyword methods
getAttributeSpec(keyword, name) ==
  LET i == SpecIndex(keyword.attributes, name)
  IN IF i = 0 THEN [name |-> "", type |-> "undefined"] ELSE keyword.attributes[i]

hasAllowedChild(keyword, child) ==
  keyword.allowsAnyChild \/ child \in keyword.allowedChildren

canContainText(keyword) == keyword.allowsTextContent


(***************************************************************************)
(* Code blocks (codeblocks.ts): CSS states, JavaScript events, CSS unit    *)
(* suffixes and the special top-level blocks.                              *)
(***************************************************************************)

ToLowerChar(c) ==
  CASE c = "A" -> "a" [] c = "B" -> "b" [] c = "C" -> "c" [] c = "D" -> "d"
    [] c = "E" -> "e" [] c = "F" -> "f" [] c = "G" -> "g" [] c = "H" -> "h"
    [] c = "I" -> "i" [] c = "J" -> "j" [] c = "K" -> "k" [] c = "L" -> "l"
    [] c = "M" -> "m" [] c = "N" -> "n" [] c = "O" -> "o" [] c = "P" -> "p"
    [] c = "Q" -> "q" [] c = "R" -> "r" [] c = "S" -> "s" [] c = "T" -> "t"
    [] c = "U" -> "u" [] c = "V" -> "v" [] c = "W" -> "w" [] c = "X" -> "x"
    [] c = "Y" -> "y" [] c = "Z" -> "z" [] OTHER -> c

toLowerCase(cs) == [i \in 1..Len(cs) |-> ToLowerChar(cs[i])]

\* cs.trim()
trim(cs) ==
  LET kept == {i \in 1..Len(cs) : cs[i] \notin TrimChars}
  IN IF kept = {} THEN <<>>
     ELSE SubSeq(cs, CHOOSE i \in kept : \A j \in kept : i <= j,
                     CHOOSE i \in kept : \A j \in kept : j <= i)

\* Whether pattern occurs in cs at the 1-based index i.
MatchesAt(cs, pattern, i) ==
  /\ i + Len(pattern) - 1 <= Len(cs)
  /\ \A k \in 1..Len(pattern) : cs[i + k - 1] = pattern[k]

\* The body of the scan of cs.replaceAll(pattern, ""), for a pattern that
\* is not empty; st = [go, at, out].
replaceAllStep(input, st) ==
  IF st.at > Len(input.cs) THEN [st EXCEPT !.go = FALSE]
  ELSE IF MatchesAt(input.cs, input.pattern, st.at)
    THEN [st EXCEPT !.at = @ + Len(input.pattern)]
    ELSE [st EXCEPT !.at = @ + 1, !.out = Append(@, input.cs[st.at])]

\* cs.replaceAll(pattern, ""): an empty pattern leaves cs as it is.
replaceAll(cs, pattern) ==
  IF Len(pattern) = 0 THEN cs
  ELSE Call("While", <<"replaceAll", [cs |-> cs, pattern |-> pattern],
             [go |-> TRUE, at |-> 1, out |-> <<>>], Len(cs) + 1>>).out

\* name.replace(/^:+/, "").toLowerCase()
normalizeCssStateName(name) ==
  LET others == {i \in 1..Len(name) : name[i] # ":"}
  IN IF others = {} THEN <<>>
     ELSE toLowerCase(SubSeq(name, CHOOSE i \in others : \A j \in others : i <= j,
                             Len(name)))

\* name.replace(/^on/i, "").toLowerCase()
normalizeJsEventName(name) ==
  IF Len(name) >= 2 /\ ToLowerChar(name[1]) = "o" /\ ToLowerChar(name[2]) = "n"
    THEN toLowerCase(SubSeq(name, 3, Len(name)))
    ELSE toLowerCase(name)

CSS_STATES ==
  {"active", "any-link", "autofill", "blank", "checked", "current", "default",
   "defined", "disabled", "empty", "enabled", "first-child", "first-of-type",
   "focus", "focus-visible", "focus-within", "fullscreen", "future", "has",
   "host", "host-context", "hover", "indeterminate", "in-range", "invalid",
   "is", "lang", "last-child", "last-of-type", "link", "local-link", "not",
   "nth-child", "nth-last-child", "nth-last-of-type", "nth-of-type",
   "only-child", "only-of-type", "optional", "out-of-range", "past",
   "placeholder-shown", "playing", "paused", "read-only", "read-write",
   "required", "root", "scope", "target", "target-within", "user-invalid",
   "user-valid", "valid", "visited", "where", "dir"}

JS_EVENTS ==
  {"abort", "animationcancel", "animationend", "animationiteration",
   "animationstart", "auxclick", "beforeinput", "blur", "canplay",
   "canplaythrough", "change", "click", "close", "compositionend",
   "compositionstart", "compositionupdate", "contextmenu", "copy", "cut",
   "dblclick", "drag", "dragend", "dragenter", "dragleave", "dragover",
   "dragstart", "drop", "durationchange", "ended", "error", "focus", "focusin",
   "focusout", "formdata", "input", "invalid", "keydown", "keypress", "keyup",
   "load", "loadeddata", "loadedmetadata", "loadstart", "mousedown",
   "mouseenter", "mouseleave", "mousemove", "mouseout", "mouseover", "mouseup",
   "paste", "pause", "play", "playing", "pointercancel", "pointerdown",
   "pointerenter", "pointerleave", "pointermove", "pointerout", "pointerover",
   "pointerup", "progress", "ratechange", "reset", "resize", "scroll",
   "securitypolicyviolation", "seeked", "seeking", "select", "slotchange",
   "stalled", "submit", "suspend", "timeupdate", "toggle", "touchcancel",
   "touchend", "touchmove", "touchstart", "transitioncancel", "transitionend",
   "transitionrun", "transitionstart", "volumechange", "waiting", "wheel"}

CSS_UNIT_SUFFIXES ==
  {"%", "cm", "mm", "Q", "in", "pc", "pt", "px", "em", "ex", "ch", "ic", "rem",
   "cap", "lh", "rlh", "vw", "vh", "vi", "vb", "vmin", "vmax", "svw", "svh",
   "svi", "svb", "svmin", "svmax", "lvw", "lvh", "lvi", "lvb", "lvmin",
   "lvmax", "dvw", "dvh", "dvi", "dvb", "dvmin", "dvmax", "cqw", "cqh", "cqi",
   "cqb", "cqmin", "cqmax", "deg", "grad", "rad", "turn", "s", "ms", "Hz",
   "kHz", "dpi", "dpcm", "dppx", "x", "fr"}

cssExceptions == {"infinite", "none", "auto"}

specialCodeblocks == {"style", "script"}

\* No name of CSS_STATES starts with ':' and none has an upper-case letter,
\* so cssStateLookup has the names of CSS_STATES.
isCssState(name) == Str(normalizeCssStateName(name)) \in CSS_STATES

isCssException(name) == Str(name) \in cssExceptions

\* No name of JS_EVENTS starts with "on" and none has an upper-case letter,
\* so jsEventLookup has the names of JS_EVENTS.
isJsEvent(name) == Str(Call("normalizeJsEventName", <<name>>)) \in JS_EVENTS

\* A test that finds no name special: what isSpecialCodeblock must not be.
isNeverSpecialCodeblock(name) == [valid |-> FALSE, kind |-> ""]

isSpecialCodeblock(name) ==
  IF Str(toLowerCase(name)) \in specialCodeblocks
    THEN [valid |-> TRUE, kind |-> Str(toLowerCase(name))]
    ELSE [valid |-> FALSE, kind |-> ""]


(***************************************************************************)
(* Parser (parser.ts).  A parser is [tokens, index, keywordCatalog]; a     *)
(* method returns [ok |-> TRUE, value, p] with the parser after it, or     *)
(* [ok |-> FALSE, error] when it throws.  Token values and literal values  *)
(* stay sequences of characters; Str makes the names used in messages and  *)
(* lookups.                                                                *)
(***************************************************************************)

POk(v, p) == [ok |-> TRUE, value |-> v, p |-> p]

ParserError(message, position) ==
  [ok |-> FALSE,
   error |-> [name |-> "ParserError", message |-> message, position |-> position]]

\* new Parser(tokens): keywordCatalog = getSvgKeywords()
NewParser(tokenList, catalog) ==
  [tokens |-> tokenList, index |-> 0, keywordCatalog |-> catalog]

peek(p, distance) ==
  IF p.index + distance < Len(p.tokens)
    THEN p.tokens[p.index + distance + 1]
    ELSE p.tokens[Len(p.tokens)]

check(p, type) == peek(p, 0).type = type

\* Parser.advance
advanceIndex(p) ==
  IF p.index < Len(p.tokens) THEN [p EXCEPT !.index = @ + 1] ELSE p

consume(p, type, message) ==
  LET token == peek(p, 0)
  IN IF token.type = type
       THEN POk(token, advanceIndex(p))
       ELSE ParserError(message \o " but got " \o Str(token.value), token.position)

\* String(n) for n = Number(raw), raw a NUMBER token of the lexer: an
\* optional '-', digits, and an optional '.' with digits.  Leading zeros of
\* the integer part and trailing zeros of the fraction go, and -0 is 0.
\* (Texts of the model have fewer than seven fraction digits and fewer than
\* sixteen digits in all, where JavaScript prints plain decimals exactly.)
NumberToString(raw) ==
  LET negative == Len(raw) > 0 /\ raw[1] = "-"
      body == IF negative THEN Tail(raw) ELSE raw
      dots == {i \in 1..Len(body) : body[i] = "."}
      dot == IF dots = {} THEN Len(body) + 1 ELSE CHOOSE i \in dots : TRUE
      int == SubSeq(body, 1, dot - 1)
      frac == SubSeq(body, dot + 1, Len(body))
      intNonZero == {i \in 1..Len(int) : int[i] # "0"}
      fracNonZero == {i \in 1..Len(frac) : frac[i] # "0"}
      intDigits == IF intNonZero = {} THEN <<"0">>
                   ELSE SubSeq(int, CHOOSE i \in intNonZero :
                                      \A j \in intNonZero : i <= j, Len(int))
      fracDigits == IF fracNonZero = {} THEN <<>>
                    ELSE SubSeq(frac, 1, CHOOSE i \in fracNonZero :
                                           \A j \in fracNonZero : j <= i)
      zero == intNonZero = {} /\ fracNonZero = {}
  IN (IF negative /\ ~zero THEN <<"-">> ELSE <<>>)
     \o intDigits
     \o (IF fracDigits = <<>> THEN <<>> ELSE <<".">> \o fracDigits)

parseStringLiteral(p) ==
  LET r == Call("consume", <<p, "STRING", "Expected string literal">>)
  IN IF ~r.ok THEN r
     ELSE POk([type |-> "StringLiteral", value |-> r.value.value,
               position |-> r.value.position], r.p)

parseNumberLiteral(p) ==
  LET r == Call("consume", <<p, "NUMBER", "Expected numeric literal">>)
  IN IF ~r.ok THEN r
     ELSE POk([type |-> "NumberLiteral", value |-> Call("NumberToString", <<r.value.value>>),
               raw |-> r.value.value, position |-> r.value.position], r.p)

parseIdentifierLiteral(p) ==
  LET r == Call("consume", <<p, "IDENTIFIER", "Expected identifier literal">>)
  IN IF ~r.ok THEN r
     ELSE POk([type |-> "IdentifierLiteral", name |-> r.value.value,
               position |-> r.value.position], r.p)

\* What fallThrough returns when it returns nothing.
NoLiteral == [type |-> "undefined"]

fallThrough(p) ==
  LET token == peek(p, 0)
      nextToken_ == peek(p, 1)
      returnable == [type |-> "StringLiteral",
                     value |-> token.value \o nextToken_.value,
                     position |-> token.position]
  IN IF token.type = "NUMBER"
        /\ Str(toLowerCase(nextToken_.value)) \in CSS_UNIT_SUFFIXES
       THEN POk(returnable, advanceIndex(advanceIndex(p)))
     ELSE IF isCssException(token.value)
       THEN POk([returnable EXCEPT
                   !.value = Call("replaceAll", <<returnable.value, nextToken_.value>>)],
                advanceIndex(p))
     ELSE POk(NoLiteral, p)

parseTupleItem(p) ==
  LET fall == Call("fallThrough", <<p>>)
      token == peek(p, 0)
  IN IF fall.value.type # "undefined" THEN fall
     ELSE CASE token.type = "STRING" -> Call("parseStringLiteral", <<p>>)
            [] token.type = "NUMBER" -> Call("parseNumberLiteral", <<p>>)
            [] token.type = "IDENTIFIER" -> Call("parseIdentifierLiteral", <<p>>)
            [] OTHER -> ParserError("Invalid value inside tuple: " \o token.type,
                                    token.position)

\* The body of the do-while loop of parseTupleLiteral;
\* st = [go, p, values, error].
parseTupleLiteralStep(st) ==
  LET r == Call("parseTupleItem", <<st.p>>)
  IN IF ~r.ok THEN [st EXCEPT !.go = FALSE, !.error = r]
     ELSE IF check(r.p, "COMMA")
       THEN [st EXCEPT !.p = advanceIndex(r.p), !.values = Append(@, r.value)]
       ELSE [st EXCEPT !.go = FALSE, !.p = r.p, !.values = Append(@, r.value)]

parseTupleLiteral(p) ==
  LET start == Call("consume", <<p, "LEFT_PAREN", "Expected '(' to start tuple">>)
      items == IF check(start.p, "RIGHT_PAREN")
                 THEN [go |-> FALSE, p |-> start.p, values |-> <<>>,
                       error |-> NoError]
                 ELSE Call("While", <<"parseTupleLiteral", <<>>,
                            [go |-> TRUE, p |-> start.p, values |-> <<>>,
                             error |-> NoError], Len(p.tokens) + 1>>)
      close == Call("consume", <<items.p, "RIGHT_PAREN",
                                 "Expected ')' to close tuple">>)
  IN CASE ~start.ok -> start
       [] ~items.error.ok -> items.error
       [] ~close.ok -> close
       [] OTHER -> POk([type |-> "TupleLiteral", values |-> items.values,
                        position |-> start.value.position], close.p)

parseAttributeValue(p) ==
  LET fall == Call("fallThrough", <<p>>)
      token == peek(p, 0)
  IN IF fall.value.type # "undefined" THEN fall
     ELSE CASE token.type = "STRING" -> Call("parseStringLiteral", <<p>>)
            [] token.type = "NUMBER" -> Call("parseNumberLiteral", <<p>>)
            [] token.type = "IDENTIFIER" -> Call("parseIdentifierLiteral", <<p>>)
            [] token.type = "LEFT_PAREN" -> Call("parseTupleLiteral", <<p>>)
            [] OTHER -> ParserError("Unexpected token '" \o Str(token.value)
                                    \o "' in attribute value", token.position)

\* failValidation
failValidation(keyword, attributeName, message, position) ==
  ParserError("Attribute '" \o attributeName \o "' on <" \o keyword.name \o "> "
              \o message, position)

\* spec.validator(value), for a value described by the typeof of its parts.
\* A spec without validator accepts.
validatorAccepts(spec, typeofs) ==
  CASE spec.validator = "isNumber" -> typeofs = <<"number">>
    [] spec.validator = "isString" -> typeofs = <<"string">>
    [] spec.validator = "isBoolean" -> typeofs = <<"boolean">>
    [] spec.validator = "isNumberTuple" ->
         Len(typeofs) = spec.length /\ \A i \in 1..Len(typeofs) : typeofs[i] = "number"
    [] spec.validator = "rejectEvery" -> FALSE
    [] OTHER -> TRUE

\* itemTypes?.[index] ?? itemTypes?.[0] ?? "number", for a 1-based index
expectedItemType(spec, index) ==
  IF index <= Len(spec.itemTypes) THEN spec.itemTypes[index]
  ELSE IF Len(spec.itemTypes) > 0 THEN spec.itemTypes[1]
  ELSE "number"

\* What the for loop of the tuple validator does with the item at index:
\* NoError when it continues, the error when it throws.
checkTupleItem(keyword, attributeName, spec, entry, index) ==
  LET expectedType == expectedItemType(spec, index)
  IN CASE expectedType = "number" ->
            IF entry.type \in {"NumberLiteral", "StringLiteral"} THEN NoError
            ELSE failValidation(keyword, attributeName,
                                "expects numeric or string tuple items", entry.position)
       [] expectedType = "string" ->
            IF entry.type = "StringLiteral" THEN NoError
            ELSE failValidation(keyword, attributeName,
                                "expects string tuple items", entry.position)
       [] expectedType = "identifier" ->
            IF entry.type = "IdentifierLiteral" THEN NoError
            ELSE failValidation(keyword, attributeName,
                                "expects identifier tuple items", entry.position)
       [] OTHER -> failValidation(keyword, attributeName,
                                  "has unsupported tuple item type", entry.position)

\* typeof of what the tuple validator collects for an accepted item
collectedTypeof(entry) ==
  IF entry.type = "NumberLiteral" THEN "number" ELSE "string"

\* Validators that accept every value: what ATTRIBUTE_VALIDATORS must not be.
acceptEveryValue(keyword, attributeName, spec, value) == NoError

\* ATTRIBUTE_VALIDATORS[spec.type]: NoError, or the error thrown.
ATTRIBUTE_VALIDATORS(keyword, attributeName, spec, value) ==
  CASE spec.type = "number" ->
         IF value.type = "NumberLiteral"
           THEN IF ~validatorAccepts(spec, <<"number">>)
                  THEN failValidation(keyword, attributeName, "failed validation",
                                      value.position)
                  ELSE NoError
         ELSE IF value.type = "StringLiteral" THEN NoError
         ELSE failValidation(keyword, attributeName, "expects a numeric value",
                             value.position)
    [] spec.type = "string" ->
         IF value.type # "StringLiteral"
           THEN failValidation(keyword, attributeName,
                  "expects a string value got '" \o value.type \o "'", value.position)
         ELSE IF ~validatorAccepts(spec, <<"string">>)
           THEN failValidation(keyword, attributeName, "failed validation",
                               value.position)
         ELSE NoError
    [] spec.type = "boolean" ->
         IF value.type # "IdentifierLiteral"
           THEN failValidation(keyword, attributeName, "expects 'true' or 'false'",
                               value.position)
         ELSE IF Str(toLowerCase(value.name)) \notin {"true", "false"}
           THEN failValidation(keyword, attributeName, "expects 'true' or 'false'",
                               value.position)
         ELSE IF ~validatorAccepts(spec, <<"boolean">>)
           THEN failValidation(keyword, attributeName, "failed validation",
                               value.position)
         ELSE NoError
    [] spec.type = "tuple" ->
         IF value.type # "TupleLiteral"
           THEN failValidation(keyword, attributeName, "expects a tuple",
                               value.position)
         ELSE IF Len(value.values) # spec.length
           THEN failValidation(keyword, attributeName,
                  "expects a tuple of length " \o ToString(spec.length),
                  value.position)
         ELSE
           LET checks == [i \in 1..Len(value.values) |->
                            Call("checkTupleItem", <<keyword, attributeName, spec,
                                           value.values[i], i>>)]
               failed == {i \in 1..Len(value.values) : ~checks[i].ok}
               shouldRunValidator ==
                 \A i \in 1..Len(value.values) :
                    ~(expectedItemType(spec, i) = "number"
                      /\ value.values[i].type = "StringLiteral")
               collected == [i \in 1..Len(value.values) |->
                               collectedTypeof(value.values[i])]
           IN IF failed # {}
                THEN checks[CHOOSE i \in failed : \A j \in failed : i <= j]
              ELSE IF shouldRunValidator /\ ~validatorAccepts(spec, collected)
                THEN failValidation(keyword, attributeName, "failed validation",
                                    value.position)
              ELSE NoError

validateAttributeValue(keyword, attributeName, spec, value) ==
  Call("ATTRIBUTE_VALIDATORS", <<keyword, attributeName, spec, value>>)

\* The first 16 hex digits of the SHA-256 of the seed keyword:line:column.
\* The model keeps the seed itself: equal seeds give equal ids, and
\* different seeds are taken to give different ids.
\* An id that numbers the calls of compile instead of hashing the position:
\* the alternative to createDirectiveId that repeated compiles would expose.
createCountedId(keyword, position) ==
  keyword \o ":" \o ToString(calls.done)

createDirectiveId(keyword, position) ==
  keyword \o ":" \o ToString(position.line) \o ":" \o ToString(position.column)

\* dataId: null
NullId == ""

\* A verification that asks for nothing: what verifyAttributes must not be.
verifyNoAttributes(keyword, attributes, position) == NoError

verifyAttributes(keyword, attributes, position) ==
  LET provided == {Str(attributes[i].name) : i \in 1..Len(attributes)}
      specs == keyword.attributes
      missing == {i \in 1..Len(specs) :
                    specs[i].required /\ specs[i].name \notin provided}
  IN IF missing = {} THEN NoError
     ELSE ParserError("Attribute '"
                      \o specs[CHOOSE i \in missing : \A j \in missing : i <= j].name
                      \o "' is required on <" \o keyword.name \o ">", position)

\* this.keywordCatalog.get(name): [ok, value |-> keyword] or the error.
lookupKeyword(p, name, position) ==
  IF Str(name) \in DOMAIN p.keywordCatalog
    THEN [ok |-> TRUE, value |-> p.keywordCatalog[Str(name)]]
    ELSE ParserError("Unknown element <" \o Str(name) \o ">", position)

parseAttributeEntry(p, parentKeyword, seen) ==
  LET nameToken == Call("consume", <<p, "IDENTIFIER", "Expected attribute name">>)
      name == Str(nameToken.value.value)
      colon == Call("consume", <<nameToken.p, "COLON",
                                 "Expected ':' between attribute name and value">>)
      value == Call("parseAttributeValue", <<colon.p>>)
      spec == getAttributeSpec(parentKeyword, name)
      valid == Call("validateAttributeValue", <<parentKeyword, name, spec,
                                                value.value>>)
  IN CASE ~nameToken.ok -> nameToken
       [] name \in seen ->
            ParserError("Attribute '" \o name \o "' specified multiple times",
                        nameToken.value.position)
       [] ~colon.ok -> colon
       [] ~value.ok -> value
       [] spec.type = "undefined" ->
            ParserError("Attribute '" \o name \o "' is not allowed on <"
                        \o parentKeyword.name \o ">", nameToken.value.position)
       [] ~valid.ok -> valid
       [] OTHER -> POk([type |-> "Attribute", name |-> nameToken.value.value,
                        value |-> value.value,
                        position |-> nameToken.value.position], value.p)

\* options.parseDirective of parseCssStateDirectives
parseCssStateDirective(p, parentKeyword, directiveId) ==
  LET atToken == Call("consume", <<p, "AT",
                   "Unexpected token inside <" \o parentKeyword.name \o ">">>)
      stateToken == Call("consume", <<atToken.p, "IDENTIFIER",
                      "Expected CSS state name after '@' in <"
                      \o parentKeyword.name \o ">">>)
  IN CASE ~atToken.ok -> atToken
       [] ~stateToken.ok -> stateToken
       [] ~Call("isCssState", <<stateToken.value.value>>) ->
            ParserError("Unknown CSS state '" \o Str(stateToken.value.value)
                        \o "'", stateToken.value.position)
       [] OTHER -> POk([type |-> "CssState", name |-> stateToken.value.value,
                        dataId |-> directiveId, block |-> <<>>,
                        position |-> atToken.value.position], stateToken.p)

\* options.parseDirective of parseJsEventDirectives
parseJsEventDirective(p, parentKeyword, directiveId) ==
  LET onToken == Call("consume", <<p, "IDENTIFIER",
                   "Unexpected identifier in <" \o parentKeyword.name \o ">">>)
      colon == Call("consume", <<onToken.p, "COLON",
                 "Expected ':' after 'on' in <" \o parentKeyword.name \o ">">>)
      eventToken == Call("consume", <<colon.p, "IDENTIFIER",
                      "Expected event name after 'on:' in <"
                      \o parentKeyword.name \o ">">>)
  IN CASE ~onToken.ok -> onToken
       [] Str(onToken.value.value) # "on" ->
            ParserError("Unexpected identifier '" \o Str(onToken.value.value)
                        \o "' inside <" \o parentKeyword.name \o ">",
                        onToken.value.position)
       [] ~colon.ok -> colon
       [] ~eventToken.ok -> eventToken
       [] ~Call("isJsEvent", <<eventToken.value.value>>) ->
            ParserError("Unknown JavaScript event '"
                        \o Str(eventToken.value.value) \o "'",
                        eventToken.value.position)
       [] OTHER -> POk([type |-> "JsEvent", name |-> eventToken.value.value,
                        dataId |-> directiveId, block |-> <<>>,
                        position |-> onToken.value.position], eventToken.p)

\* The options of parseDirectiveGroup, by the kind of directive.
parseDirective(kind, p, parentKeyword, directiveId) ==
  IF kind = "CssState" THEN Call("parseCssStateDirective", <<p, parentKeyword, directiveId>>)
                       ELSE Call("parseJsEventDirective", <<p, parentKeyword, directiveId>>)

hasNext(kind, p) ==
  IF kind = "CssState"
    THEN check(p, "COMMA") /\ peek(p, 1).type = "AT"
    ELSE /\ check(p, "COMMA")
         /\ peek(p, 1).type = "IDENTIFIER"
         /\ Str(peek(p, 1).value) = "on"
         /\ peek(p, 2).type = "COLON"

separatorMessage(kind) ==
  IF kind = "CssState" THEN "Expected ',' between CSS states"
                       ELSE "Expected ',' between JavaScript events"

blockMessageFor(kind, directive, parentKeyword) ==
  IF kind = "CssState"
    THEN "Expected block for CSS state '" \o Str(directive.name) \o "' in <"
         \o parentKeyword.name \o ">"
    ELSE "Expected block for event '" \o Str(directive.name) \o "' in <"
         \o parentKeyword.name \o ">"

\* The body of the do-while loop of parseDirectiveGroup;
\* input = [kind, parentKeyword, directiveId], st = [go, p, directives, error].
parseDirectiveGroupStep(input, st) ==
  LET r == Call("parseDirective", <<input.kind, st.p, input.parentKeyword,
                                    input.directiveId>>)
      comma == Call("consume", <<r.p, "COMMA", separatorMessage(input.kind)>>)
  IN CASE ~r.ok -> [st EXCEPT !.go = FALSE, !.error = r]
       [] ~Call("hasNext", <<input.kind, r.p>>) ->
            [st EXCEPT !.go = FALSE, !.p = r.p, !.directives = Append(@, r.value)]
       [] ~comma.ok -> [st EXCEPT !.go = FALSE, !.error = comma]
       [] OTHER -> [st EXCEPT !.p = comma.p, !.directives = Append(@, r.value)]

\* parseDirectiveGroup followed by the map that gives every directive of
\* the group the block: what parseCssStateDirectives and
\* parseJsEventDirectives return.
parseDirectives(kind, p, parentKeyword, directiveId) ==
  LET group == Call("While", <<"parseDirectiveGroup",
                     [kind |-> kind, parentKeyword |-> parentKeyword,
                      directiveId |-> directiveId],
                     [go |-> TRUE, p |-> p, directives |-> <<>>, error |-> NoError],
                     Len(p.tokens) + 1>>)
      blockToken == Call("consume", <<group.p, "BLOCK",
                      blockMessageFor(kind,
                        group.directives[Len(group.directives)], parentKeyword)>>)
  IN CASE ~group.error.ok -> group.error
       [] ~blockToken.ok -> blockToken
       [] OTHER -> POk([i \in 1..Len(group.directives) |->
                          [group.directives[i] EXCEPT
                             !.block = blockToken.value.value]],
                       blockToken.p)

parseCssStateDirectives(p, parentKeyword, directiveId) ==
  Call("parseDirectives", <<"CssState", p, parentKeyword, directiveId>>)

\* Event directives that take an id of their own, from the position of "on",
\* instead of the id of the element: what parseJsEventDirectives must not do.
parseJsEventDirectivesOwnId(p, parentKeyword, directiveId) ==
  Call("parseDirectives", <<"JsEvent", p, parentKeyword,
                            createDirectiveId("on", peek(p, 0).position)>>)

parseJsEventDirectives(p, parentKeyword, directiveId) ==
  Call("parseDirectives", <<"JsEvent", p, parentKeyword, directiveId>>)

RECURSIVE parseElement(_)

\* The body of the while loop of collectBlockEntries;
\* input = [parentKeyword, idGenerated],
\* st = [go, p, attributes, children, seen, cssStates, jsEvents, used, error].
collectBlockEntriesStep(input, st) ==
  LET parentKeyword == input.parentKeyword
      p == st.p
      identifierToken == peek(p, 0)
      lookahead == peek(p, 1)
      Throw(r) == [st EXCEPT !.go = FALSE, !.error = r]
      css == Call("parseCssStateDirectives", <<p, parentKeyword, input.idGenerated>>)
      literal == Call("parseStringLiteral", <<p>>)
      js == Call("parseJsEventDirectives", <<p, parentKeyword, input.idGenerated>>)
      attribute == Call("parseAttributeEntry", <<p, parentKeyword, st.seen>>)
      child == Call("parseElement", <<p>>)
  IN CASE check(p, "EOF") -> [st EXCEPT !.go = FALSE]
       [] check(p, "AT") ->
            IF ~css.ok THEN Throw(css)
            ELSE [st EXCEPT !.p = css.p, !.cssStates = @ \o css.value,
                            !.used = TRUE]
       [] check(p, "STRING") ->
            IF ~canContainText(parentKeyword)
              THEN Throw(ParserError("Text content is not allowed inside <"
                                     \o parentKeyword.name \o ">",
                                     literal.value.position))
              ELSE [st EXCEPT !.p = literal.p,
                              !.children = Append(@,
                                 [type |-> "Text", value |-> literal.value.value,
                                  position |-> literal.value.position])]
       [] ~check(p, "IDENTIFIER") ->
            Throw(ParserError("Unexpected token '" \o Str(identifierToken.value)
                              \o "' inside <" \o parentKeyword.name \o ">",
                              identifierToken.position))
       [] Str(identifierToken.value) = "on" /\ lookahead.type = "COLON" ->
            IF ~js.ok THEN Throw(js)
            ELSE [st EXCEPT !.p = js.p, !.jsEvents = @ \o js.value, !.used = TRUE]
       [] lookahead.type = "COLON" ->
            IF ~attribute.ok THEN Throw(attribute)
            ELSE [st EXCEPT !.p = attribute.p,
                            !.attributes = Append(@, attribute.value),
                            !.seen = @ \cup {Str(attribute.value.name)}]
       [] lookahead.type = "BLOCK" ->
            CASE ~child.ok -> Throw(child)
              [] ~hasAllowedChild(parentKeyword, child.value.name) ->
                   Throw(ParserError("Element <" \o child.value.name
                                     \o "> is not allowed inside <"
                                     \o parentKeyword.name \o ">",
                                     child.value.position))
              [] OTHER -> [st EXCEPT !.p = child.p,
                                     !.children = Append(@, child.value)]
       [] OTHER ->
            Throw(ParserError("Expected ':' for attribute or block for child in <"
                              \o parentKeyword.name \o ">", lookahead.position))

\* [ok, value |-> the ElementBlockEntries] or the error.
collectBlockEntries(p, parentKeyword) ==
  LET idGenerated == createDirectiveId(parentKeyword.name, peek(p, 0).position)
      r == Call("While", <<"collectBlockEntries",
                 [parentKeyword |-> parentKeyword, idGenerated |-> idGenerated],
                 [go |-> TRUE, p |-> p, attributes |-> <<>>, children |-> <<>>,
                  seen |-> {}, cssStates |-> <<>>, jsEvents |-> <<>>,
                  used |-> FALSE, error |-> NoError], Len(p.tokens) + 1>>)
  IN IF ~r.error.ok THEN r.error
     ELSE [ok |-> TRUE,
           value |-> [attributes |-> r.attributes, children |-> r.children,
                      cssStates |-> r.cssStates, jsEvents |-> r.jsEvents,
                      dataId |-> IF r.used THEN idGenerated ELSE NullId]]

parseElementBlock(p, keyword, blockToken) ==
  LET raw == blockToken.value
      inner == SubSeq(raw, 2, Len(raw) - 1)
      blockTokens == Call("tokenize", <<inner>>)
  IN CASE Len(raw) = 0 \/ raw[1] # "{" \/ raw[Len(raw)] # "}" ->
            ParserError("Malformed block for <" \o keyword.name \o ">",
                        blockToken.position)
       [] Len(trim(inner)) = 0 ->
            [ok |-> TRUE,
             value |-> [attributes |-> <<>>, children |-> <<>>, cssStates |-> <<>>,
                        jsEvents |-> <<>>, dataId |-> NullId]]
       [] ~blockTokens.ok -> blockTokens
       [] OTHER -> Call("collectBlockEntries", <<
                      NewParser(blockTokens.value, p.keywordCatalog), keyword>>)

parseElement(p) ==
  LET nameToken == Call("consume", <<p, "IDENTIFIER", "Expected element name">>)
      keyword == Call("lookupKeyword", <<p, nameToken.value.value,
                                         nameToken.value.position>>)
      blockToken == Call("consume", <<nameToken.p, "BLOCK",
                          "Expected block to describe <"
                          \o keyword.value.name \o ">">>)
      entries == Call("parseElementBlock", <<p, keyword.value, blockToken.value>>)
      verified == Call("verifyAttributes", <<keyword.value,
                        entries.value.attributes, nameToken.value.position>>)
  IN CASE ~nameToken.ok -> nameToken
       [] ~keyword.ok -> keyword
       [] ~blockToken.ok -> blockToken
       [] ~entries.ok -> entries
       [] ~verified.ok -> verified
       [] OTHER -> POk([type |-> "Element",
                        name |-> keyword.value.name,
                        attributes |-> entries.value.attributes,
                        children |-> entries.value.children,
                        cssStates |-> entries.value.cssStates,
                        jsEvents |-> entries.value.jsEvents,
                        dataId |-> entries.value.dataId,
                        position |-> nameToken.value.position],
                       blockToken.p)

\* The body of the first while loop of parse, which takes the special
\* blocks out of the tokens; st = [go, p, newGenTokens, specialBlocks, error].
parseSpecialBlocksStep(st) ==
  LET p == st.p
      peekValue == peek(p, 0).value
      position == peek(p, 0).position
      codeblock == Call("isSpecialCodeblock", <<peekValue>>)
  IN IF check(p, "EOF") THEN [st EXCEPT !.go = FALSE]
     ELSE IF codeblock.valid /\ check(p, "IDENTIFIER") /\ peek(p, 1).type = "BLOCK"
       THEN LET identifier == Call("consume", <<p, "IDENTIFIER", "Expected codeblock identifier">>)
                block == Call("consume", <<identifier.p, "BLOCK",
                                 IF codeblock.kind = "style"
                                   THEN "Expected style block"
                                   ELSE "Expected script block">>)
            IN [st EXCEPT
                  !.p = block.p,
                  !.specialBlocks = Append(@,
                     [type |-> "SpecialBlock", style |-> codeblock.kind,
                      content |-> trim(SubSeq(block.value.value, 2,
                                              Len(block.value.value) - 1)),
                      position |-> position])]
       ELSE [st EXCEPT !.newGenTokens = Append(@, peek(p, 0)),
                       !.p = advanceIndex(p)]

\* The body of the second while loop of parse; st = [go, p, children, error].
parseChildrenStep(st) ==
  LET r == Call("parseElement", <<st.p>>)
  IN CASE check(st.p, "EOF") -> [st EXCEPT !.go = FALSE]
       [] ~r.ok -> [st EXCEPT !.go = FALSE, !.error = r]
       [] OTHER -> [st EXCEPT !.p = r.p, !.children = Append(@, r.value)]

\* The first while loop of parse and the EOF token pushed after it:
\* [newGenTokens, specialBlocks, p].
parseSpecialBlocks(p) ==
  LET special == Call("While", <<"parseSpecialBlocks", <<>>,
                       [go |-> TRUE, p |-> p, newGenTokens |-> <<>>,
                        specialBlocks |-> <<>>, error |-> NoError],
                       Len(p.tokens) + 1>>)
  IN [special EXCEPT !.newGenTokens =
        Append(@, Token("EOF", <<>>, peek(special.p, 0).position))]

\* Parser.parse: [ok, value |-> <<RootNode, SpecialBlock[]>>] or the error.
parse(p) ==
  LET special == Call("parseSpecialBlocks", <<p>>)
      newGenTokens == special.newGenTokens
      elements == Call("While", <<"parseChildren", <<>>,
                        [go |-> TRUE,
                         p |-> [p EXCEPT !.tokens = newGenTokens, !.index = 0],
                         children |-> <<>>, error |-> NoError],
                        Len(newGenTokens) + 1>>)
  IN IF ~elements.error.ok THEN elements.error
     ELSE [ok |-> TRUE,
           value |-> <<[type |-> "Root", children |-> elements.children],
                       special.specialBlocks>>]

(***************************************************************************)
(* Compiler (compiler.ts).  Generated text is a sequence of strings: the   *)
(* characters that come from the source text one by one, and the fixed     *)
(* fragments, catalog names and generated ids as one element each.  Str    *)
(* gives the string.  A plain Error has a name and a message, no position. *)
(***************************************************************************)

\* An error that carries the position of the start of the text.
PositionedError(message) ==
  [ok |-> FALSE,
   error |-> [name |-> "ParserError", message |-> message,
              position |-> [line |-> 1, column |-> 1]]]

PlainError(message) ==
  [ok |-> FALSE, error |-> [name |-> "Error", message |-> message]]

\* texts.join(separator)
Join(texts, separator) ==
  Flatten([i \in 1..Len(texts) |-> IF i = 1 THEN texts[i] ELSE separator \o texts[i]])

DEFAULT_INDENT == "  "

\* indent.repeat(depth)
repeat(indent, depth) == [i \in 1..depth |-> indent]

\* buildVariableContext(ast.varsBlock): the map from the names of the
\* declarations to their values; empty for a root without varsBlock.
buildVariableContext(root) ==
  IF "varsBlock" \in DOMAIN root
    THEN LET declarations == root.varsBlock.declarations
             names == {Str(declarations[i].name) : i \in 1..Len(declarations)}
         IN [n \in names |->
               declarations[CHOOSE i \in 1..Len(declarations) :
                              /\ Str(declarations[i].name) = n
                              /\ \A j \in (i + 1)..Len(declarations) :
                                    Str(declarations[j].name) # n].value]
    ELSE [n \in {} |-> NoLiteral]

RECURSIVE resolveValue(_, _)
\* [ok, value |-> the literal without references] or the Error.
resolveValue(value, variables) ==
  IF value.type = "VariableReference"
    THEN IF Str(value.name) \in DOMAIN variables
           THEN Call("resolveValue", <<variables[Str(value.name)], variables>>)
           ELSE PlainError("Variable '" \o Str(value.name) \o "' is not defined")
  ELSE IF value.type = "TupleLiteral"
    THEN LET resolved == [i \in 1..Len(value.values) |->
                            Call("resolveValue", <<value.values[i], variables>>)]
             failed == {i \in 1..Len(resolved) : ~resolved[i].ok}
         IN IF failed # {}
              THEN resolved[CHOOSE i \in failed : \A j \in failed : i <= j]
              ELSE [ok |-> TRUE,
                    value |-> [type |-> "TupleLiteral",
                               values |-> [i \in 1..Len(resolved) |->
                                             resolved[i].value],
                               position |-> value.position]]
  ELSE [ok |-> TRUE, value |-> value]

\* A JavaScript value made by the normalize functions is [array |-> FALSE,
\* text] with text = String(value), or [array |-> TRUE, items] with the
\* String of each item.
Scalar(text) == [array |-> FALSE, text |-> text]

normalizeNumberLike(value) ==
  CASE value.type = "NumberLiteral" -> [ok |-> TRUE, value |-> Scalar(value.value)]
    [] value.type = "StringLiteral" -> [ok |-> TRUE, value |-> Scalar(value.value)]
    [] value.type = "IdentifierLiteral" -> [ok |-> TRUE, value |-> Scalar(value.name)]
    [] OTHER -> PlainError("Expected numeric value")

normalizeStringLike(value) ==
  CASE value.type = "StringLiteral" -> [ok |-> TRUE, value |-> Scalar(value.value)]
    [] value.type = "NumberLiteral" -> [ok |-> TRUE, value |-> Scalar(value.raw)]
    [] value.type = "IdentifierLiteral" -> [ok |-> TRUE, value |-> Scalar(value.name)]
    [] OTHER -> PlainError("Expected string value")

normalizeBoolean(value) ==
  IF value.type # "IdentifierLiteral" THEN PlainError("Expected boolean identifier")
  ELSE [ok |-> TRUE,
        value |-> Scalar(IF Str(toLowerCase(value.name)) = "true"
                           THEN <<"true">> ELSE <<"false">>)]

\* What the map of normalizeTuple gives for an entry, "" if it throws.
tupleEntryText(entry) ==
  CASE entry.type = "NumberLiteral" -> entry.value
    [] entry.type = "StringLiteral" -> entry.value
    [] entry.type = "IdentifierLiteral" -> entry.name
    [] OTHER -> ""

normalizeTuple(value) ==
  IF value.type # "TupleLiteral" THEN PlainError("Expected tuple value")
  ELSE IF \E i \in 1..Len(value.values) :
            value.values[i].type \notin
              {"NumberLiteral", "StringLiteral", "IdentifierLiteral"}
    THEN PlainError("Unsupported value inside tuple")
  ELSE [ok |-> TRUE,
        value |-> [array |-> TRUE,
                   items |-> [i \in 1..Len(value.values) |->
                                tupleEntryText(value.values[i])]]]

createAttributeValue(attributeNode, spec, variables) ==
  LET value == Call("resolveValue", <<attributeNode.value, variables>>)
  IN IF ~value.ok THEN value
     ELSE CASE spec.type = "number" -> normalizeNumberLike(value.value)
            [] spec.type = "string" -> normalizeStringLike(value.value)
            [] spec.type = "boolean" -> normalizeBoolean(value.value)
            [] spec.type = "tuple" -> normalizeTuple(value.value)

\* String(value): an array is its items joined by ','.
StringOf(value) ==
  IF value.array THEN Join(value.items, <<",">>) ELSE value.text

\* The replacements with & replaced last: the & of an entity written for
\* another character is replaced once more.
escapeAmpersandLast(text) ==
  [i \in 1..Len(text) |->
     CASE text[i] = "&" -> "&amp;"
       [] text[i] = "\"" -> "&amp;quot;"
       [] text[i] = "<" -> "&amp;lt;"
       [] text[i] = ">" -> "&amp;gt;"
       [] OTHER -> text[i]]

EscapeAttributeChar(c) ==
  CASE c = "&" -> "&amp;"
    [] c = "\"" -> "&quot;"
    [] c = "<" -> "&lt;"
    [] c = ">" -> "&gt;"
    [] OTHER -> c

\* The four replacements of escapeAttributeValue, character by character.
\* (An element longer than a character is a catalog name or a generated
\* id, which has none of the four characters.)
escapeAttributeValue(text) == [i \in 1..Len(text) |-> EscapeAttributeChar(text[i])]

EscapeTextChar(c) ==
  CASE c = "&" -> "&amp;"
    [] c = "<" -> "&lt;"
    [] c = ">" -> "&gt;"
    [] OTHER -> c

escapeTextContent(text) == [i \in 1..Len(text) |-> EscapeTextChar(text[i])]

EscapeJsChar(c) ==
  CASE c = "\\" -> "\\\\"
    [] c = "\"" -> "\\\""
    [] OTHER -> c

escapeForJsString(text) == [i \in 1..Len(text) |-> EscapeJsChar(text[i])]

extractBlockContent(block) ==
  LET trimmed == trim(block)
  IN IF Len(trimmed) > 0 /\ trimmed[1] = "{" /\ trimmed[Len(trimmed)] = "}"
       THEN trim(SubSeq(trimmed, 2, Len(trimmed) - 1))
       ELSE trimmed

\* Object.entries(spec.produce(value)) without the undefined values, or of
\* { [spec.name]: value } for a spec without produce: <<key, text>> pairs.
produced(spec, value) ==
  CASE spec.produce.kind = "none" -> <<<<spec.name, StringOf(value)>>>>
    [] spec.produce.kind = "join" ->
         \* a template literal of the items, "undefined" for a missing one
         <<<<spec.produce.keys[1],
             Join([i \in 1..spec.length |->
                     IF value.array /\ i <= Len(value.items)
                       THEN value.items[i] ELSE <<"undefined">>], <<" ">>)>>>>
    [] spec.produce.kind = "keys" /\ spec.type = "tuple" ->
         \* const [first, second] = values: a key without item is undefined
         LET present == {i \in 1..Len(spec.produce.keys) :
                           value.array /\ i <= Len(value.items)}
         IN [i \in 1..Cardinality(present) |-> <<spec.produce.keys[i], value.items[i]>>]
    [] OTHER -> <<<<spec.produce.keys[1], StringOf(value)>>>>

RECURSIVE literalValueToString(_)
\* [ok, defined, text]: the string returned, defined = FALSE when the
\* function returns undefined; or the Error.
literalValueToString(value) ==
  CASE value.type = "NumberLiteral" ->
         [ok |-> TRUE, defined |-> TRUE, text |-> value.value]
    [] value.type = "StringLiteral" ->
         [ok |-> TRUE, defined |-> TRUE, text |-> value.value]
    [] value.type = "IdentifierLiteral" ->
         \* value.value of a literal that has name and no value
         [ok |-> TRUE, defined |-> FALSE, text |-> <<>>]
    [] value.type = "BooleanLiteral" ->
         [ok |-> TRUE, defined |-> TRUE, text |-> value.value]
    [] value.type = "TupleLiteral" ->
         LET items == [i \in 1..Len(value.values) |->
                         Call("literalValueToString", <<value.values[i]>>)]
             failed == {i \in 1..Len(items) : ~items[i].ok}
         IN IF failed # {}
              THEN items[CHOOSE i \in failed : \A j \in failed : i <= j]
              \* join writes an undefined item as the empty string
              ELSE [ok |-> TRUE, defined |-> TRUE,
                    text |-> Join([i \in 1..Len(items) |-> items[i].text],
                                  <<",", " ">>)]
    [] OTHER -> PlainError("Unresolved variable reference: $" \o Str(value.name))

VariableNameStart(c) == isAlpha(c) \/ c \in {"_", "-"}

VariableNameChar(c) == isAlpha(c) \/ isDigit(c) \/ c \in {"_", "-"}

\* The body of the scan of text.replace(/\$([a-zA-Z_-][a-zA-Z0-9_-]*)/g, ...);
\* input = [text, variables], st = [go, at, out, error].
resolveVariablesInTextStep(input, st) ==
  LET text == input.text
      at == st.at
  IN IF at > Len(text) THEN [st EXCEPT !.go = FALSE]
     ELSE IF text[at] = "$" /\ at < Len(text) /\ VariableNameStart(text[at + 1])
       THEN LET stops == {j \in (at + 1)..Len(text) : ~VariableNameChar(text[j])}
                end == IF stops = {} THEN Len(text) + 1
                       ELSE CHOOSE j \in stops : \A k \in stops : j <= k
                varName == Str(SubSeq(text, at + 1, end - 1))
            IN IF varName \notin DOMAIN input.variables
                 THEN [st EXCEPT !.go = FALSE,
                                 !.error = PlainError("Variable '$" \o varName
                                                      \o "' is not defined")]
                 ELSE LET r == Call("literalValueToString", <<input.variables[varName]>>)
                      IN IF ~r.ok THEN [st EXCEPT !.go = FALSE, !.error = r]
                         ELSE [st EXCEPT
                                 !.at = end,
                                 !.out = @ \o (IF r.defined THEN r.text
                                                            ELSE <<"undefined">>)]
       ELSE [st EXCEPT !.at = @ + 1, !.out = Append(@, text[at])]

\* [ok, value |-> text] or the Error.
resolveVariablesInText(text, variables) ==
  LET r == Call("While", <<"resolveVariablesInText", [text |-> text, variables |-> variables],
                 [go |-> TRUE, at |-> 1, out |-> <<>>, error |-> NoError],
                 Len(text) + 1>>)
  IN IF ~r.error.ok THEN r.error ELSE [ok |-> TRUE, value |-> r.out]

\* content.trim().split(/\r?\n/).map(line => indent + line).join("\n")
indentBlock(content, indent) ==
  LET normalized == trim(content)
  IN IF Len(normalized) = 0 THEN <<>>
     ELSE <<indent>> \o
          Flatten([i \in 1..Len(normalized) |->
                     IF normalized[i] = "\n" THEN <<"\n", indent>>
                     ELSE IF normalized[i] = "\r" /\ i < Len(normalized)
                             /\ normalized[i + 1] = "\n" THEN <<>>
                     ELSE <<normalized[i]>>])

\* A Map from dataId to entries is a sequence of [dataId, entries] in the
\* order of insertion.
MapIndex(map, dataId) ==
  IF \E i \in 1..Len(map) : map[i].dataId = dataId
    THEN CHOOSE i \in 1..Len(map) : map[i].dataId = dataId
    ELSE 0

\* map.get(dataId) ?? []
MapGet(map, dataId) ==
  IF MapIndex(map, dataId) = 0 THEN <<>> ELSE map[MapIndex(map, dataId)].entries

\* map.set(dataId, entries)
MapSet(map, dataId, entries) ==
  IF MapIndex(map, dataId) = 0
    THEN Append(map, [dataId |-> dataId, entries |-> entries])
    ELSE [map EXCEPT ![MapIndex(map, dataId)].entries = entries]

\* The entries that one of the two loops of collectDirectives pushes for
\* directives: [ok, value |-> entries] or the Error of the first that throws.
directiveEntries(directives, variables) ==
  LET resolved == [i \in 1..Len(directives) |->
                     Call("resolveVariablesInText", <<Call("extractBlockContent", <<directives[i].block>>),
                                            variables>>)]
      failed == {i \in 1..Len(resolved) : ~resolved[i].ok}
  IN IF failed # {}
       THEN resolved[CHOOSE i \in failed : \A j \in failed : i <= j]
       ELSE [ok |-> TRUE,
             value |-> [i \in 1..Len(directives) |->
                          [name |-> directives[i].name, block |-> resolved[i].value]]]

\* [ok, context] or the Error.
collectDirectives(node, context) ==
  IF node.dataId = NullId THEN [ok |-> TRUE, context |-> context]
  ELSE
    LET css == Call("directiveEntries", <<node.cssStates, context.variables>>)
        js == Call("directiveEntries", <<node.jsEvents, context.variables>>)
    IN IF Len(node.cssStates) > 0 /\ ~css.ok THEN css
       ELSE IF Len(node.jsEvents) > 0 /\ ~js.ok THEN js
       ELSE [ok |-> TRUE,
             context |->
               [context EXCEPT
                  !.cssDirectives =
                     IF Len(node.cssStates) > 0
                       THEN MapSet(@, node.dataId, MapGet(@, node.dataId) \o css.value)
                       ELSE @,
                  !.jsDirectives =
                     IF Len(node.jsEvents) > 0
                       THEN MapSet(@, node.dataId, MapGet(@, node.dataId) \o js.value)
                       ELSE @]]

\* Lines that leave out the rule of an entry with an empty body: what
\* cssRule must not be.
cssRuleOfBody(dataId, entry) ==
  LET body == Call("indentBlock", <<entry.block, DEFAULT_INDENT>>)
  IN IF Len(body) = 0
       THEN <<>>
       ELSE <<"[data-identifier=\"", dataId, "\"]:">> \o entry.name \o <<" {">>
            \o <<"\n">> \o body \o <<"\n", "}">>

\* The lines that renderCssDirectives pushes for an entry of dataId.
cssRule(dataId, entry) ==
  LET body == Call("indentBlock", <<entry.block, DEFAULT_INDENT>>)
  IN IF Len(body) = 0
       THEN <<"[data-identifier=\"", dataId, "\"]:">> \o entry.name \o <<" {}">>
       ELSE <<"[data-identifier=\"", dataId, "\"]:">> \o entry.name \o <<" {">>
            \o <<"\n">> \o body \o <<"\n", "}">>

\* rules.join("\n"); the empty text stands for null.
renderCssDirectives(cssDirectives) ==
  Join(Flatten([i \in 1..Len(cssDirectives) |->
                  [k \in 1..Len(cssDirectives[i].entries) |->
                     Call("cssRule", <<cssDirectives[i].dataId, cssDirectives[i].entries[k]>>)]]),
       <<"\n">>)

\* The lines that renderJsDirectives pushes for an entry.
jsListener(entry) ==
  LET body == Call("indentBlock", <<entry.block, DEFAULT_INDENT \o DEFAULT_INDENT>>)
  IN <<DEFAULT_INDENT, "element.addEventListener(\"">> \o entry.name
     \o <<"\", (event) => {">>
     \o (IF Len(body) > 0 THEN <<"\n">> \o body ELSE <<>>)
     \o <<"\n", DEFAULT_INDENT, "});">>

\* lines.join("\n") of the group of dataId
jsGroup(dataId, entries) ==
  <<"(() => {", "\n",
    DEFAULT_INDENT, "const element = document.querySelector('[data-identifier=\"">>
  \o escapeForJsString(<<dataId>>) \o <<"\"]');", "\n",
    DEFAULT_INDENT, "if (!element) return;", "\n",
    DEFAULT_INDENT, "const identifier = element.getAttribute(\"data-identifier\");",
    "\n">>
  \o Join([k \in 1..Len(entries) |-> Call("jsListener", <<entries[k]>>)], <<"\n">>)
  \o (IF Len(entries) > 0 THEN <<"\n">> ELSE <<>>)
  \o <<"})();">>

\* groups.join("\n"); the empty text stands for null.
renderJsDirectives(jsDirectives) ==
  Join([i \in 1..Len(jsDirectives) |->
          Call("jsGroup", <<jsDirectives[i].dataId, jsDirectives[i].entries>>)], <<"\n">>)

\* name="value" for each pair that an attribute produces
renderedPairs(pairs) ==
  [i \in 1..Len(pairs) |->
     <<pairs[i][1], "=\"">> \o escapeAttributeValue(pairs[i][2]) \o <<"\"">>]

\* [ok, value |-> the rendered attributes] or the Error.
renderAttributes(node, keyword, context) ==
  LET specOf(i) == getAttributeSpec(keyword, Str(node.attributes[i].name))
      values == [i \in 1..Len(node.attributes) |->
                   IF specOf(i).type = "undefined" THEN [ok |-> TRUE]
                   ELSE Call("createAttributeValue", <<node.attributes[i], specOf(i),
                                             context.variables>>)]
      failed == {i \in 1..Len(values) : ~values[i].ok}
  IN IF failed # {}
       THEN values[CHOOSE i \in failed : \A j \in failed : i <= j]
       ELSE [ok |-> TRUE,
             value |-> Flatten([i \in 1..Len(values) |->
                          IF specOf(i).type = "undefined" THEN <<>>
                          ELSE renderedPairs(Call("produced", <<specOf(i), values[i].value>>))])]

RECURSIVE compileElement(_, _, _)

compileChild(child, context, depth) ==
  IF child.type = "Text"
    THEN [ok |-> TRUE,
          value |-> repeat(DEFAULT_INDENT, depth) \o escapeTextContent(child.value),
          context |-> context]
    ELSE Call("compileElement", <<child, context, depth>>)

\* The body of a map over nodes that compiles each with the context the
\* one before left; input = [nodes, depth, top],
\* st = [go, at, compiled, context, error].
compileNodesStep(input, st) ==
  IF st.at > Len(input.nodes) THEN [st EXCEPT !.go = FALSE]
  ELSE LET r == IF input.top
                  THEN Call("compileElement", <<input.nodes[st.at], st.context, input.depth>>)
                  ELSE Call("compileChild", <<input.nodes[st.at], st.context, input.depth>>)
       IN IF ~r.ok THEN [st EXCEPT !.go = FALSE, !.error = r]
          ELSE [st EXCEPT !.at = @ + 1, !.compiled = Append(@, r.value),
                          !.context = r.context]

compileNodes(nodes, context, depth, top) ==
  Call("While", <<"compileNodes", [nodes |-> nodes, depth |-> depth, top |-> top],
        [go |-> TRUE, at |-> 1, compiled |-> <<>>, context |-> context,
         error |-> NoError], Len(nodes) + 1>>)

\* [ok, value |-> text, context] or the Error.
compileElement(node, context, depth) ==
  IF node.name \notin DOMAIN context.keywords
    THEN PlainError("Unknown SVG element: " \o node.name)
  ELSE
    LET keyword == context.keywords[node.name]
        indent == repeat(DEFAULT_INDENT, depth)
        rendered == Call("renderAttributes", <<node, keyword, context>>)
    IN IF ~rendered.ok THEN rendered
       ELSE
         LET attributes ==
               IF node.dataId # NullId
                 THEN <<<<"data-identifier=\"">>
                        \o escapeAttributeValue(<<node.dataId>>) \o <<"\"">>>>
                      \o rendered.value
                 ELSE rendered.value
             attributesSegment ==
               IF Len(attributes) > 0 THEN <<" ">> \o Join(attributes, <<" ">>)
                                      ELSE <<>>
             collected == Call("collectDirectives", <<node, context>>)
         IN IF ~collected.ok THEN collected
            ELSE IF Len(node.children) = 0
              THEN [ok |-> TRUE,
                    value |-> indent \o <<"<", node.name>> \o attributesSegment
                              \o <<" />">>,
                    context |-> collected.context]
            ELSE
              LET children == Call("compileNodes", <<node.children, collected.context,
                                           depth + 1, FALSE>>)
              IN IF ~children.error.ok THEN children.error
                 ELSE [ok |-> TRUE,
                       value |-> indent \o <<"<", node.name>> \o attributesSegment
                                 \o <<">", "\n">>
                                 \o Join(children.compiled, <<"\n">>)
                                 \o <<"\n">> \o indent \o <<"</", node.name, ">">>,
                       context |-> children.context]

\* <style>, <script> or the block of a special block
section(tag, content) ==
  <<"<", tag, ">", "\n">> \o content \o <<"\n", "</", tag, ">">>

\* A compileAst that puts the sections of the special blocks before the
\* generated style and script sections: what compileAst must not be.
compileAstBlocksFirst(root, blocks, keywords) ==
  LET context == [keywords |-> keywords, cssDirectives |-> <<>>,
                  jsDirectives |-> <<>>,
                  variables |-> Call("buildVariableContext", <<root>>)]
      elements == Call("compileNodes", <<root.children, context, 0, TRUE>>)
  IN IF ~elements.error.ok THEN elements.error
     ELSE
       LET markup == Join(elements.compiled, <<"\n">>)
           cssContent == Call("renderCssDirectives", <<elements.context.cssDirectives>>)
           jsContent == Call("renderJsDirectives", <<elements.context.jsDirectives>>)
           sections ==
             <<markup>>
             \o [i \in 1..Len(blocks) |-> section(blocks[i].style, blocks[i].content)]
             \o (IF Len(cssContent) > 0 THEN <<section("style", cssContent)>>
                                        ELSE <<>>)
             \o (IF Len(jsContent) > 0 THEN <<section("script", jsContent)>>
                                       ELSE <<>>)
       IN [ok |-> TRUE,
           value |-> Join(SelectSeq(sections, LAMBDA s : Len(s) > 0), <<"\n">>)]

\* compileAst(ast, blocks), given what getSvgKeywords() returns:
\* [ok, value |-> text] or the Error.
compileAst(root, blocks, keywords) ==
  LET context == [keywords |-> keywords, cssDirectives |-> <<>>,
                  jsDirectives |-> <<>>,
                  variables |-> Call("buildVariableContext", <<root>>)]
      elements == Call("compileNodes", <<root.children, context, 0, TRUE>>)
  IN IF ~elements.error.ok THEN elements.error
     ELSE
       LET markup == Join(elements.compiled, <<"\n">>)
           cssContent == Call("renderCssDirectives", <<elements.context.cssDirectives>>)
           jsContent == Call("renderJsDirectives", <<elements.context.jsDirectives>>)
           sections ==
             <<markup>>
             \o (IF Len(cssContent) > 0 THEN <<section("style", cssContent)>>
                                        ELSE <<>>)
             \o (IF Len(jsContent) > 0 THEN <<section("script", jsContent)>>
                                       ELSE <<>>)
             \o [i \in 1..Len(blocks) |-> section(blocks[i].style, blocks[i].content)]
       IN [ok |-> TRUE,
           value |-> Join(SelectSeq(sections, LAMBDA s : Len(s) > 0), <<"\n">>)]

\* The characters of the string s.
Chars(s) == [i \in 1..Len(s) |-> SubSeq(s, i, i)]

(***************************************************************************)
(* The command-line runner (packages/cli/src/runner.ts).  A path is the    *)
(* sequence of its segments; the file system maps the paths that exist to  *)
(* a directory, a file with its content, or another kind of entry.         *)
(***************************************************************************)

MIRROW_EXTENSION == ".mirrow"

\* compile(source) of @mirrow/core: the text, or the error thrown.
compile(source) ==
  LET lexed == Call("tokenize", <<source>>)
      parsed == Call("parse", <<NewParser(lexed.value, BuiltKeywordStore)>>)
      compiled == Call("compileAst", <<parsed.value[1], parsed.value[2],
                                       BuiltKeywordStore>>)
  IN IF ~lexed.ok THEN [ok |-> FALSE, error |-> lexed.error]
     ELSE IF ~parsed.ok THEN [ok |-> FALSE, error |-> parsed.error]
     ELSE IF ~compiled.ok THEN [ok |-> FALSE, error |-> compiled.error]
     ELSE [ok |-> TRUE, value |-> Str(compiled.value)]

Directory == [kind |-> "dir", content |-> ""]

File(content) == [kind |-> "file", content |-> content]

\* A symbolic link, a socket, ...: neither isDirectory() nor isFile().
OtherEntry == [kind |-> "other", content |-> ""]

\* path.basename and path.dirname of a path with at least one segment
basename(path) == path[Len(path)]

dirname(path) == SubSeq(path, 1, Len(path) - 1)

\* The places of the dots in a segment.
DotsOf(name) == {i \in 1..Len(name) : SubSeq(name, i, i) = "."}

LastDot(name) == CHOOSE i \in DotsOf(name) : \A j \in DotsOf(name) : j <= i

\* path.extname(path): the text from the last dot of the last segment on,
\* empty when the segment has no dot or only the dot it starts with.
extname(path) ==
  LET name == basename(path)
  IN IF DotsOf(name) = {} \/ LastDot(name) = 1 THEN ""
     ELSE SubSeq(name, LastDot(name), Len(name))

\* toSvgPath: fileName.replace(/\.[^/.]+$/, "") drops a last dot that is
\* followed by at least one character, with what follows it.
toSvgPath(outputDir, fileName) ==
  LET base == IF DotsOf(fileName) # {} /\ LastDot(fileName) < Len(fileName)
                THEN SubSeq(fileName, 1, LastDot(fileName) - 1)
                ELSE fileName
  IN Append(outputDir, base \o ".svg")

\* The single-file target of runMirrow:
\* path.extname(output) ? output : `${output}.svg`
resolveOutputFilePath(output) ==
  IF extname(output) # "" THEN output
  ELSE Append(dirname(output), basename(output) \o ".svg")

FsOk(fs) == [ok |-> TRUE, fs |-> fs]

\* fs.mkdir(path, { recursive: true }): the path and the directories above
\* it exist afterwards; it fails when one of them exists and is no directory.
mkdir(fs, path) ==
  LET above == {SubSeq(path, 1, k) : k \in 1..Len(path)}
  IN IF \E p \in above : p \in DOMAIN fs /\ fs[p].kind # "dir"
       THEN PlainError("EEXIST: file already exists, mkdir")
       ELSE FsOk([p \in DOMAIN fs \cup above |->
                    IF p \in DOMAIN fs THEN fs[p] ELSE Directory])

\* fs.writeFile(path, content) in a directory that exists
writeFile(fs, path, content) ==
  IF path \in DOMAIN fs /\ fs[path].kind = "dir"
    THEN PlainError("EISDIR: illegal operation on a directory, open")
    ELSE FsOk([p \in DOMAIN fs \cup {path} |->
                 IF p = path THEN File(content) ELSE fs[p]])

\* fs.readdir(dir): the entries of dir
readdir(fs, dir) ==
  {p \in DOMAIN fs : Len(p) = Len(dir) + 1 /\ SubSeq(p, 1, Len(dir)) = dir}

\* The orders in which readdir may list a set of entries.
Orders(entries) ==
  {order \in [1..Cardinality(entries) -> entries] :
     \A i, j \in 1..Cardinality(entries) : i # j => order[i] # order[j]}

Done(fs, lg) == [ok |-> TRUE, fs |-> fs, log |-> lg]

\* compileMirrowFile(inputFile, outputFile): the file system and the log
\* afterwards, or the error it rejects with.
compileMirrowFile(fs, lg, inputFile, outputFile) ==
  LET compiled == Call("compile", <<Chars(fs[inputFile].content)>>)
      made == mkdir(fs, dirname(outputFile))
      written == writeFile(made.fs, outputFile, compiled.value)
  IN IF extname(inputFile) # MIRROW_EXTENSION
       THEN PlainError("Mirrow sources must use the .mirrow extension")
     ELSE IF ~compiled.ok THEN compiled
     ELSE IF ~made.ok THEN made
     ELSE IF ~written.ok THEN written
     ELSE Done(written.fs,
               Append(lg, [kind |-> "compiled", from |-> inputFile, to |-> outputFile]))

\* copyAsset(inputFile, outputFile)
copyAsset(fs, lg, inputFile, outputFile) ==
  LET made == mkdir(fs, dirname(outputFile))
      written == writeFile(made.fs, outputFile, fs[inputFile].content)
  IN IF ~made.ok THEN made
     ELSE IF ~written.ok THEN written
     ELSE Done(written.fs,
               Append(lg, [kind |-> "copied", from |-> inputFile, to |-> outputFile]))

\* depth: a number of levels, or Infinity.
Levels(n) == [finite |-> TRUE, levels |-> n]

Unbound == [finite |-> FALSE, levels |-> 0]

\* Subdirectories are entered everywhere: processDirectory without its test
\* of depth.
entersEveryDirectory(depth) == FALSE

\* if (depth === 0) continue: the subdirectories of a directory that is
\* processed with depth 0 are passed over.
skipsDirectories(depth) == depth.finite /\ depth.levels = 0

\* depth === Infinity ? Infinity : depth - 1
nextDepth(depth) == IF depth.finite THEN Levels(depth.levels - 1) ELSE depth

\* The body of each while loop of the lexer, the parser and the compiler.
Body(loop, input, st) ==
  CASE loop = "readString" -> readStringStep(input, st)
    [] loop = "readBlockComment" -> readBlockCommentStep(input, st)
    [] loop = "templateExpr" -> templateExprStep(input, st)
    [] loop = "template" -> templateStep(input, st)
    [] loop = "readBlock" -> readBlockStep(input, st)
    [] loop = "tokenize" -> tokenizeStep(input, st)
    [] loop = "replaceAll" -> replaceAllStep(input, st)
    [] loop = "parseTupleLiteral" -> parseTupleLiteralStep(st)
    [] loop = "parseDirectiveGroup" -> parseDirectiveGroupStep(input, st)
    [] loop = "collectBlockEntries" -> collectBlockEntriesStep(input, st)
    [] loop = "parseSpecialBlocks" -> parseSpecialBlocksStep(st)
    [] loop = "parseChildren" -> parseChildrenStep(st)
    [] loop = "resolveVariablesInText" -> resolveVariablesInTextStep(input, st)
    [] loop = "compileNodes" -> compileNodesStep(input, st)
    [] OTHER -> takeCharStep(loop, input, st)

\* The function or method fn applied to args.
Call(fn, args) ==
  CASE fn = "While" -> While(args[1], args[2], args[3], args[4])
    [] fn = "readString" -> readString(args[1], args[2])
    [] fn = "compile" -> compile(args[1])
    [] fn = "compileMirrowFile" ->
         compileMirrowFile(args[1], args[2], args[3], args[4])
    [] fn = "copyAsset" -> copyAsset(args[1], args[2], args[3], args[4])
    [] fn = "takeChars" -> takeChars(args[1], args[2], args[3], args[4])
    [] fn = "readComment" -> readComment(args[1], args[2])
    [] fn = "readVariableReference" -> readVariableReference(args[1], args[2])
    [] fn = "readNumber" -> readNumber(args[1], args[2])
    [] fn = "readTemplateRaw" -> readTemplateRaw(args[1], args[2])
    [] fn = "readBlock" -> readBlock(args[1], args[2])
    [] fn = "nextToken" -> nextToken(args[1], args[2])
    [] fn = "tokenize" -> tokenize(args[1])
    [] fn = "Keyword" -> Keyword(args[1])
    [] fn = "replaceAll" -> replaceAll(args[1], args[2])
    [] fn = "normalizeJsEventName" -> normalizeJsEventName(args[1])
    [] fn = "isCssState" -> isCssState(args[1])
    [] fn = "isJsEvent" -> isJsEvent(args[1])
    [] fn = "isSpecialCodeblock" -> isSpecialCodeblock(args[1])
    [] fn = "consume" -> consume(args[1], args[2], args[3])
    [] fn = "NumberToString" -> NumberToString(args[1])
    [] fn = "parseStringLiteral" -> parseStringLiteral(args[1])
    [] fn = "parseNumberLiteral" -> parseNumberLiteral(args[1])
    [] fn = "parseIdentifierLiteral" -> parseIdentifierLiteral(args[1])
    [] fn = "fallThrough" -> fallThrough(args[1])
    [] fn = "parseTupleItem" -> parseTupleItem(args[1])
    [] fn = "parseTupleLiteral" -> parseTupleLiteral(args[1])
    [] fn = "parseAttributeValue" -> parseAttributeValue(args[1])
    [] fn = "checkTupleItem" -> checkTupleItem(args[1], args[2], args[3], args[4], args[5])
    [] fn = "ATTRIBUTE_VALIDATORS" -> ATTRIBUTE_VALIDATORS(args[1], args[2], args[3], args[4])
    [] fn = "validateAttributeValue" -> validateAttributeValue(args[1], args[2], args[3], args[4])
    [] fn = "verifyAttributes" -> verifyAttributes(args[1], args[2], args[3])
    [] fn = "lookupKeyword" -> lookupKeyword(args[1], args[2], args[3])
    [] fn = "parseAttributeEntry" -> parseAttributeEntry(args[1], args[2], args[3])
    [] fn = "parseCssStateDirective" -> parseCssStateDirective(args[1], args[2], args[3])
    [] fn = "parseJsEventDirective" -> parseJsEventDirective(args[1], args[2], args[3])
    [] fn = "parseDirective" -> parseDirective(args[1], args[2], args[3], args[4])
    [] fn = "hasNext" -> hasNext(args[1], args[2])
    [] fn = "parseDirectives" -> parseDirectives(args[1], args[2], args[3], args[4])
    [] fn = "parseCssStateDirectives" -> parseCssStateDirectives(args[1], args[2], args[3])
    [] fn = "parseJsEventDirectives" -> parseJsEventDirectives(args[1], args[2], args[3])
    [] fn = "collectBlockEntries" -> collectBlockEntries(args[1], args[2])
    [] fn = "parseElementBlock" -> parseElementBlock(args[1], args[2], args[3])
    [] fn = "parseElement" -> parseElement(args[1])
    [] fn = "parseSpecialBlocks" -> parseSpecialBlocks(args[1])
    [] fn = "parse" -> parse(args[1])
    [] fn = "buildVariableContext" -> buildVariableContext(args[1])
    [] fn = "resolveValue" -> resolveValue(args[1], args[2])
    [] fn = "createAttributeValue" -> createAttributeValue(args[1], args[2], args[3])
    [] fn = "extractBlockContent" -> extractBlockContent(args[1])
    [] fn = "produced" -> produced(args[1], args[2])
    [] fn = "literalValueToString" -> literalValueToString(args[1])
    [] fn = "resolveVariablesInText" -> resolveVariablesInText(args[1], args[2])
    [] fn = "indentBlock" -> indentBlock(args[1], args[2])
    [] fn = "directiveEntries" -> directiveEntries(args[1], args[2])
    [] fn = "collectDirectives" -> collectDirectives(args[1], args[2])
    [] fn = "cssRule" -> cssRule(args[1], args[2])
    [] fn = "renderCssDirectives" -> renderCssDirectives(args[1])
    [] fn = "jsListener" -> jsListener(args[1])
    [] fn = "jsGroup" -> jsGroup(args[1], args[2])
    [] fn = "renderJsDirectives" -> renderJsDirectives(args[1])
    [] fn = "renderAttributes" -> renderAttributes(args[1], args[2], args[3])
    [] fn = "compileChild" -> compileChild(args[1], args[2], args[3])
    [] fn = "compileNodes" -> compileNodes(args[1], args[2], args[3], args[4])
    [] fn = "compileElement" -> compileElement(args[1], args[2], args[3])
    [] fn = "compileAst" -> compileAst(args[1], args[2], args[3])

(***************************************************************************)
(* The process: compile (index.ts) is called with a source text, and then  *)
(* again and again in the same process.  A call runs tokenize, parse and   *)
(* compileAst in turn and returns the output or throws; the only state     *)
(* that one call leaves to the next is the keyword catalog that            *)
(* getSvgKeywords builds on its first use.                                 *)
(***************************************************************************)

\* Elements that follow the first text of a document: at most this many.
MaxSiblings == 1

\* compile is called at most this many times in one process.
MaxCalls == 3

\* svg { size: (200, 200) rect { at: (1, 2) size: (10, 20) @hover, @focus { fill: red; } on:click { go(); } } }
DirectivesText ==
  <<"s", "v", "g", " ", "{", " ", "s", "i", "z", "e", ":", " ", "(", "2",
    "0", "0", ",", " ", "2", "0", "0", ")", " ", "r", "e", "c", "t", " ",
    "{", " ", "a", "t", ":", " ", "(", "1", ",", " ", "2", ")", " ", "s",
    "i", "z", "e", ":", " ", "(", "1", "0", ",", " ", "2", "0", ")", " ",
    "@", "h", "o", "v", "e", "r", ",", " ", "@", "f", "o", "c", "u", "s",
    " ", "{", " ", "f", "i", "l", "l", ":", " ", "r", "e", "d", ";", " ",
    "}", " ", "o", "n", ":", "c", "l", "i", "c", "k", " ", "{", " ", "g",
    "o", "(", ")", ";", " ", "}", " ", "}", " ", "}">>

\* rect { size: (1, 2) @hover { fill: red; } }
HoverRectText ==
  <<"r", "e", "c", "t", " ", "{", " ", "s", "i", "z", "e", ":", " ", "(",
    "1", ",", " ", "2", ")", " ", "@", "h", "o", "v", "e", "r", " ", "{",
    " ", "f", "i", "l", "l", ":", " ", "r", "e", "d", ";", " ", "}", " ",
    "}">>

\* g { @hover { fill: red; } g { @hover { fill: blue; } } }
NestedGroupsText ==
  <<"g", " ", "{", " ", "@", "h", "o", "v", "e", "r", " ", "{", " ", "f",
    "i", "l", "l", ":", " ", "r", "e", "d", ";", " ", "}", " ", "g", " ",
    "{", " ", "@", "h", "o", "v", "e", "r", " ", "{", " ", "f", "i", "l",
    "l", ":", " ", "b", "l", "u", "e", ";", " ", "}", " ", "}", " ", "}">>

\* circle { at: (1, 2) r: 3 on:click { go(); } @active { r: 4; } }
ClickCircleText ==
  <<"c", "i", "r", "c", "l", "e", " ", "{", " ", "a", "t", ":", " ", "(",
    "1", ",", " ", "2", ")", " ", "r", ":", " ", "3", " ", "o", "n", ":",
    "c", "l", "i", "c", "k", " ", "{", " ", "g", "o", "(", ")", ";", " ",
    "}", " ", "@", "a", "c", "t", "i", "v", "e", " ", "{", " ", "r", ":",
    " ", "4", ";", " ", "}", " ", "}">>

\* line {}
EmptyLineText ==
  <<"l", "i", "n", "e", " ", "{", "}">>

\* rect {}
EmptyRectText ==
  <<"r", "e", "c", "t", " ", "{", "}">>

\* g {}
EmptyGroupText ==
  <<"g", " ", "{", "}">>

\* circle { at: (1, 2) }
CircleWithoutRadiusText ==
  <<"c", "i", "r", "c", "l", "e", " ", "{", " ", "a", "t", ":", " ", "(",
    "1", ",", " ", "2", ")", " ", "}">>

\* line { from: (0, 0) stroke: "red" }
LineWithoutToText ==
  <<"l", "i", "n", "e", " ", "{", " ", "f", "r", "o", "m", ":", " ", "(",
    "0", ",", " ", "0", ")", " ", "s", "t", "r", "o", "k", "e", ":", " ",
    "\"", "r", "e", "d", "\"", " ", "}">>

\* svg { size: (1, 2) line {} }
NestedEmptyLineText ==
  <<"s", "v", "g", " ", "{", " ", "s", "i", "z", "e", ":", " ", "(", "1",
    ",", " ", "2", ")", " ", "l", "i", "n", "e", " ", "{", "}", " ", "}">>

\* rect { at: (20, 20) size: (100px, 100px) radius: (8, 8) stroke: #333 strokeWidth: 2 id: "box" }
ReadmeRectText ==
  <<"r", "e", "c", "t", " ", "{", " ", "a", "t", ":", " ", "(", "2", "0",
    ",", " ", "2", "0", ")", " ", "s", "i", "z", "e", ":", " ", "(", "1",
    "0", "0", "p", "x", ",", " ", "1", "0", "0", "p", "x", ")", " ", "r",
    "a", "d", "i", "u", "s", ":", " ", "(", "8", ",", " ", "8", ")", " ",
    "s", "t", "r", "o", "k", "e", ":", " ", "#", "3", "3", "3", " ", "s",
    "t", "r", "o", "k", "e", "W", "i", "d", "t", "h", ":", " ", "2", " ",
    "i", "d", ":", " ", "\"", "b", "o", "x", "\"", " ", "}">>

\* rect { at: (20, 20) size: (100px, 100px) radius: (8, 8) stroke: "#333" strokeWidth: 2 id: "box" }
QuotedStrokeRectText ==
  <<"r", "e", "c", "t", " ", "{", " ", "a", "t", ":", " ", "(", "2", "0",
    ",", " ", "2", "0", ")", " ", "s", "i", "z", "e", ":", " ", "(", "1",
    "0", "0", "p", "x", ",", " ", "1", "0", "0", "p", "x", ")", " ", "r",
    "a", "d", "i", "u", "s", ":", " ", "(", "8", ",", " ", "8", ")", " ",
    "s", "t", "r", "o", "k", "e", ":", " ", "\"", "#", "3", "3", "3", "\"",
    " ", "s", "t", "r", "o", "k", "e", "W", "i", "d", "t", "h", ":", " ",
    "2", " ", "i", "d", ":", " ", "\"", "b", "o", "x", "\"", " ", "}">>

\* vars { width: 150 } svg { size: ($width, 100) }
VarsSizeText ==
  <<"v", "a", "r", "s", " ", "{", " ", "w", "i", "d", "t", "h", ":", " ",
    "1", "5", "0", " ", "}", " ", "s", "v", "g", " ", "{", " ", "s", "i",
    "z", "e", ":", " ", "(", "$", "w", "i", "d", "t", "h", ",", " ", "1",
    "0", "0", ")", " ", "}">>

\* svg { size: (150, 100) }
InlinedSizeText ==
  <<"s", "v", "g", " ", "{", " ", "s", "i", "z", "e", ":", " ", "(", "1",
    "5", "0", ",", " ", "1", "0", "0", ")", " ", "}">>

\* rect { at: (0, 0) size: ($undeclared, 10) }
UndeclaredText ==
  <<"r", "e", "c", "t", " ", "{", " ", "a", "t", ":", " ", "(", "0", ",",
    " ", "0", ")", " ", "s", "i", "z", "e", ":", " ", "(", "$", "u", "n",
    "d", "e", "c", "l", "a", "r", "e", "d", ",", " ", "1", "0", ")", " ",
    "}">>

\* vars { a: 10 b: $a } svg { size: (100, 100) }
VarsReferenceText ==
  <<"v", "a", "r", "s", " ", "{", " ", "a", ":", " ", "1", "0", " ", "b",
    ":", " ", "$", "a", " ", "}", " ", "s", "v", "g", " ", "{", " ", "s",
    "i", "z", "e", ":", " ", "(", "1", "0", "0", ",", " ", "1", "0", "0",
    ")", " ", "}">>

\* vars { c: red } rect { size: (1, 2) @hover { fill: $c; } }
VarsHoverText ==
  <<"v", "a", "r", "s", " ", "{", " ", "c", ":", " ", "r", "e", "d", " ",
    "}", " ", "r", "e", "c", "t", " ", "{", " ", "s", "i", "z", "e", ":",
    " ", "(", "1", ",", " ", "2", ")", " ", "@", "h", "o", "v", "e", "r",
    " ", "{", " ", "f", "i", "l", "l", ":", " ", "$", "c", ";", " ", "}",
    " ", "}">>

\* rect { size: (1, 2) @hover { fill: $c; } }
DollarHoverText ==
  <<"r", "e", "c", "t", " ", "{", " ", "s", "i", "z", "e", ":", " ", "(",
    "1", ",", " ", "2", ")", " ", "@", "h", "o", "v", "e", "r", " ", "{",
    " ", "f", "i", "l", "l", ":", " ", "$", "c", ";", " ", "}", " ", "}">>

\* feSpotLight { at: (1, 2, 3) }
SpotLightText ==
  <<"f", "e", "S", "p", "o", "t", "L", "i", "g", "h", "t", " ", "{", " ",
    "a", "t", ":", " ", "(", "1", ",", " ", "2", ",", " ", "3", ")", " ",
    "}">>

\* feSpotLight { at: (1, 2) }
SpotLightPairText ==
  <<"f", "e", "S", "p", "o", "t", "L", "i", "g", "h", "t", " ", "{", " ",
    "a", "t", ":", " ", "(", "1", ",", " ", "2", ")", " ", "}">>

\* feSpotLight { at: (1, 2, 3, 4) pointsAt: (5, 6, 7) }
SpotLightFourText ==
  <<"f", "e", "S", "p", "o", "t", "L", "i", "g", "h", "t", " ", "{", " ",
    "a", "t", ":", " ", "(", "1", ",", " ", "2", ",", " ", "3", ",", " ",
    "4", ")", " ", "p", "o", "i", "n", "t", "s", "A", "t", ":", " ", "(",
    "5", ",", " ", "6", ",", " ", "7", ")", " ", "}">>

\* rect { size: () }
EmptyTupleText ==
  <<"r", "e", "c", "t", " ", "{", " ", "s", "i", "z", "e", ":", " ", "(",
    ")", " ", "}">>

\* rect { size: 5 }
ScalarSizeText ==
  <<"r", "e", "c", "t", " ", "{", " ", "s", "i", "z", "e", ":", " ", "5",
    " ", "}">>

\* svg { box: (0, 0, 200, 200) }
BoxText ==
  <<"s", "v", "g", " ", "{", " ", "b", "o", "x", ":", " ", "(", "0", ",",
    " ", "0", ",", " ", "2", "0", "0", ",", " ", "2", "0", "0", ")", " ",
    "}">>

\* svg { preserve: (xMidYMid, meet) size: (1, 2) }
PreserveText ==
  <<"s", "v", "g", " ", "{", " ", "p", "r", "e", "s", "e", "r", "v", "e",
    ":", " ", "(", "x", "M", "i", "d", "Y", "M", "i", "d", ",", " ", "m",
    "e", "e", "t", ")", " ", "s", "i", "z", "e", ":", " ", "(", "1", ",",
    " ", "2", ")", " ", "}">>

\* text { "a & b" } (newline) style { .a { color: red } }
TextAndStyleText ==
  <<"t", "e", "x", "t", " ", "{", " ", "\"", "a", " ", "&", " ", "b", "\"",
    " ", "}", "\n", "s", "t", "y", "l", "e", " ", "{", " ", ".", "a", " ",
    "{", " ", "c", "o", "l", "o", "r", ":", " ", "r", "e", "d", " ", "}",
    " ", "}">>

\* rect { size: (1, 2)
UnterminatedText ==
  <<"r", "e", "c", "t", " ", "{", " ", "s", "i", "z", "e", ":", " ", "(",
    "1", ",", " ", "2", ")">>

\* circle { r: 10 filled: "yes" }
BooleanStringText ==
  <<"c", "i", "r", "c", "l", "e", " ", "{", " ", "r", ":", " ", "1", "0",
    " ", "f", "i", "l", "l", "e", "d", ":", " ", "\"", "y", "e", "s", "\"",
    " ", "}">>

\* circle { r: 10 filled: "true" }
BooleanQuotedTrueText ==
  <<"c", "i", "r", "c", "l", "e", " ", "{", " ", "r", ":", " ", "1", "0",
    " ", "f", "i", "l", "l", "e", "d", ":", " ", "\"", "t", "r", "u", "e",
    "\"", " ", "}">>

\* circle { r: 10 filled: TRUE }
BooleanUpperText ==
  <<"c", "i", "r", "c", "l", "e", " ", "{", " ", "r", ":", " ", "1", "0",
    " ", "f", "i", "l", "l", "e", "d", ":", " ", "T", "R", "U", "E", " ",
    "}">>

\* circle { r: 10 filled: False }
BooleanMixedText ==
  <<"c", "i", "r", "c", "l", "e", " ", "{", " ", "r", ":", " ", "1", "0",
    " ", "f", "i", "l", "l", "e", "d", ":", " ", "F", "a", "l", "s", "e",
    " ", "}">>

\* circle { r: 10 filled: 1 }
BooleanNumberText ==
  <<"c", "i", "r", "c", "l", "e", " ", "{", " ", "r", ":", " ", "1", "0",
    " ", "f", "i", "l", "l", "e", "d", ":", " ", "1", " ", "}">>

\* circle { r: 10 filled: (1, 2) }
BooleanTupleText ==
  <<"c", "i", "r", "c", "l", "e", " ", "{", " ", "r", ":", " ", "1", "0",
    " ", "f", "i", "l", "l", "e", "d", ":", " ", "(", "1", ",", " ", "2",
    ")", " ", "}">>

\* circle { r: 10 filled: maybe }
BooleanOtherText ==
  <<"c", "i", "r", "c", "l", "e", " ", "{", " ", "r", ":", " ", "1", "0",
    " ", "f", "i", "l", "l", "e", "d", ":", " ", "m", "a", "y", "b", "e",
    " ", "}">>

\* rect { foo: 1 size: (20, 10) }
UndeclaredFooText ==
  <<"r", "e", "c", "t", " ", "{", " ", "f", "o", "o", ":", " ", "1", " ",
    "s", "i", "z", "e", ":", " ", "(", "2", "0", ",", " ", "1", "0", ")",
    " ", "}">>

\* foreignObject { x: 10 size: (120, 60) }
LegacyXText ==
  <<"f", "o", "r", "e", "i", "g", "n", "O", "b", "j", "e", "c", "t", " ",
    "{", " ", "x", ":", " ", "1", "0", " ", "s", "i", "z", "e", ":", " ",
    "(", "1", "2", "0", ",", " ", "6", "0", ")", " ", "}">>

\* rect { size: (1, 2) foo: "a" }
UndeclaredLastText ==
  <<"r", "e", "c", "t", " ", "{", " ", "s", "i", "z", "e", ":", " ", "(",
    "1", ",", " ", "2", ")", " ", "f", "o", "o", ":", " ", "\"", "a", "\"",
    " ", "}">>

\* svg { rect { size: (1, 2) cx: 3 } }
NestedUndeclaredText ==
  <<"s", "v", "g", " ", "{", " ", "r", "e", "c", "t", " ", "{", " ", "s",
    "i", "z", "e", ":", " ", "(", "1", ",", " ", "2", ")", " ", "c", "x",
    ":", " ", "3", " ", "}", " ", "}">>

\* text { "}" }
QuotedBraceText ==
  <<"t", "e", "x", "t", " ", "{", " ", "\"", "}", "\"", " ", "}">>

\* rect { size: (1, 2) // } (newline)   id: "}" }
CommentBraceText ==
  <<"r", "e", "c", "t", " ", "{", " ", "s", "i", "z", "e", ":", " ", "(",
    "1", ",", " ", "2", ")", " ", "/", "/", " ", "}", "\n", " ", " ", "i",
    "d", ":", " ", "\"", "}", "\"", " ", "}">>

\* g { on:click { f(`}${ {a: "}"} }{`); } }
TemplateBraceText ==
  <<"g", " ", "{", " ", "o", "n", ":", "c", "l", "i", "c", "k", " ", "{",
    " ", "f", "(", "~", "}", "$", "{", " ", "{", "a", ":", " ", "\"", "}",
    "\"", "}", " ", "}", "{", "~", ")", ";", " ", "}", " ", "}">>

\* g { /* } */ }
BlockCommentBraceText ==
  <<"g", " ", "{", " ", "/", "*", " ", "}", " ", "*", "/", " ", "}">>

\* g { on:click { f('}') } }
SingleQuoteBraceText ==
  <<"g", " ", "{", " ", "o", "n", ":", "c", "l", "i", "c", "k", " ", "{",
    " ", "f", "(", "'", "}", "'", ")", " ", "}", " ", "}">>

\* rect { size: (1, 2) id: "a\" }
EscapedQuoteText ==
  <<"r", "e", "c", "t", " ", "{", " ", "s", "i", "z", "e", ":", " ", "(",
    "1", ",", " ", "2", ")", " ", "i", "d", ":", " ", "\"", "a", "\\", "\"",
    " ", "}">>

\* g { } (newline) 'abc
TopLevelStringText ==
  <<"g", " ", "{", " ", "}", "\n", "'", "a", "b", "c">>

\* g { } /* note
UnterminatedCommentText ==
  <<"g", " ", "{", " ", "}", " ", "/", "*", " ", "n", "o", "t", "e">>

\* g { on:click { f(`a${b}); } }
UnterminatedTemplateText ==
  <<"g", " ", "{", " ", "o", "n", ":", "c", "l", "i", "c", "k", " ", "{",
    " ", "f", "(", "~", "a", "$", "{", "b", "}", ")", ";", " ", "}", " ",
    "}">>

\* g { on:click { f(`a\`
EscapedBacktickText ==
  <<"g", " ", "{", " ", "o", "n", ":", "c", "l", "i", "c", "k", " ", "{",
    " ", "f", "(", "~", "a", "\\", "~">>

\* g { on:click { f(`a${ `
NestedTemplateText ==
  <<"g", " ", "{", " ", "o", "n", ":", "c", "l", "i", "c", "k", " ", "{",
    " ", "f", "(", "~", "a", "$", "{", " ", "~">>

\* g { on:click { f(`a${ "x }`); } }
StringInTemplateText ==
  <<"g", " ", "{", " ", "o", "n", ":", "c", "l", "i", "c", "k", " ", "{",
    " ", "f", "(", "~", "a", "$", "{", " ", "\"", "x", " ", "}", "~", ")",
    ";", " ", "}", " ", "}">>

\* circle { r: 2s }
UnitSecondsText ==
  <<"c", "i", "r", "c", "l", "e", " ", "{", " ", "r", ":", " ", "2", "s",
    " ", "}">>

\* svg { size: (100px, 50%) }
UnitPercentText ==
  <<"s", "v", "g", " ", "{", " ", "s", "i", "z", "e", ":", " ", "(", "1",
    "0", "0", "p", "x", ",", " ", "5", "0", "%", ")", " ", "}">>

\* circle { r: 5Q }
UnitQText ==
  <<"c", "i", "r", "c", "l", "e", " ", "{", " ", "r", ":", " ", "5", "Q",
    " ", "}">>

\* svg { size: (10Hz, 2kHz) }
UnitHertzText ==
  <<"s", "v", "g", " ", "{", " ", "s", "i", "z", "e", ":", " ", "(", "1",
    "0", "H", "z", ",", " ", "2", "k", "H", "z", ")", " ", "}">>

\* circle { r: 10PX }
UnitUpperText ==
  <<"c", "i", "r", "c", "l", "e", " ", "{", " ", "r", ":", " ", "1", "0",
    "P", "X", " ", "}">>

\* rect { size: (1, 2) fill: none on:click { go(); } }
ExceptionBeforeEventText ==
  <<"r", "e", "c", "t", " ", "{", " ", "s", "i", "z", "e", ":", " ", "(",
    "1", ",", " ", "2", ")", " ", "f", "i", "l", "l", ":", " ", "n", "o",
    "n", "e", " ", "o", "n", ":", "c", "l", "i", "c", "k", " ", "{", " ",
    "g", "o", "(", ")", ";", " ", "}", " ", "}">>

\* rect { size: (1, 2) fill: none stroke: "red" }
ExceptionBeforeAttributeText ==
  <<"r", "e", "c", "t", " ", "{", " ", "s", "i", "z", "e", ":", " ", "(",
    "1", ",", " ", "2", ")", " ", "f", "i", "l", "l", ":", " ", "n", "o",
    "n", "e", " ", "s", "t", "r", "o", "k", "e", ":", " ", "\"", "r", "e",
    "d", "\"", " ", "}">>

\* rect { size: (1, 2) fill: none }
ExceptionLastText ==
  <<"r", "e", "c", "t", " ", "{", " ", "s", "i", "z", "e", ":", " ", "(",
    "1", ",", " ", "2", ")", " ", "f", "i", "l", "l", ":", " ", "n", "o",
    "n", "e", " ", "}">>

\* rect { size: (auto, none) }
ExceptionTupleText ==
  <<"r", "e", "c", "t", " ", "{", " ", "s", "i", "z", "e", ":", " ", "(",
    "a", "u", "t", "o", ",", " ", "n", "o", "n", "e", ")", " ", "}">>

\* g { fill: none rect { size: (1, 2) } }
ExceptionBeforeChildText ==
  <<"g", " ", "{", " ", "f", "i", "l", "l", ":", " ", "n", "o", "n", "e",
    " ", "r", "e", "c", "t", " ", "{", " ", "s", "i", "z", "e", ":", " ",
    "(", "1", ",", " ", "2", ")", " ", "}", " ", "}">>

\* script { go(); } (newline) g { } (newline) style {  .a { }  } (newline) script { b }
SpecialBlocksText ==
  <<"s", "c", "r", "i", "p", "t", " ", "{", " ", "g", "o", "(", ")", ";",
    " ", "}", "\n", "g", " ", "{", " ", "}", "\n", "s", "t", "y", "l", "e",
    " ", "{", " ", " ", ".", "a", " ", "{", " ", "}", " ", " ", "}", "\n",
    "s", "c", "r", "i", "p", "t", " ", "{", " ", "b", " ", "}">>

\* STYLE { .a { } } (newline) g { }
UpperStyleText ==
  <<"S", "T", "Y", "L", "E", " ", "{", " ", ".", "a", " ", "{", " ", "}",
    " ", "}", "\n", "g", " ", "{", " ", "}">>

\* g { } style
StyleWithoutBlockText ==
  <<"g", " ", "{", " ", "}", " ", "s", "t", "y", "l", "e">>

\* style { .a { } } (newline) rect { size: (1, 2) @hover { fill: red; } on:click { go(); } } (newline) script { b(); }
AllSectionsText ==
  <<"s", "t", "y", "l", "e", " ", "{", " ", ".", "a", " ", "{", " ", "}",
    " ", "}", "\n", "r", "e", "c", "t", " ", "{", " ", "s", "i", "z", "e",
    ":", " ", "(", "1", ",", " ", "2", ")", " ", "@", "h", "o", "v", "e",
    "r", " ", "{", " ", "f", "i", "l", "l", ":", " ", "r", "e", "d", ";",
    " ", "}", " ", "o", "n", ":", "c", "l", "i", "c", "k", " ", "{", " ",
    "g", "o", "(", ")", ";", " ", "}", " ", "}", "\n", "s", "c", "r", "i",
    "p", "t", " ", "{", " ", "b", "(", ")", ";", " ", "}">>

\* style { .a { } }
OnlyStyleBlockText ==
  <<"s", "t", "y", "l", "e", " ", "{", " ", ".", "a", " ", "{", " ", "}",
    " ", "}">>

\* rect { size: (1, 2) @hover { } @focus, @active { (newline) } }
EmptyHoverText ==
  <<"r", "e", "c", "t", " ", "{", " ", "s", "i", "z", "e", ":", " ", "(",
    "1", ",", " ", "2", ")", " ", "@", "h", "o", "v", "e", "r", " ", "{",
    " ", "}", " ", "@", "f", "o", "c", "u", "s", ",", " ", "@", "a", "c",
    "t", "i", "v", "e", " ", "{", "\n", "}", " ", "}">>

\* svg { rect{ id:"box" } @hover { #box { stroke: #0070f3 } } }
HoverBoxText ==
  <<"s", "v", "g", " ", "{", " ", "r", "e", "c", "t", "{", " ", "i", "d",
    ":", "\"", "b", "o", "x", "\"", " ", "}", " ", "@", "h", "o", "v", "e",
    "r", " ", "{", " ", "#", "b", "o", "x", " ", "{", " ", "s", "t", "r",
    "o", "k", "e", ":", " ", "#", "0", "0", "7", "0", "f", "3", " ", "}",
    " ", "}", " ", "}">>

\* svg { rect{ size: (1, 2) id:"box" } @hover { #box { stroke: #0070f3 } } }
HoverBoxSizedText ==
  <<"s", "v", "g", " ", "{", " ", "r", "e", "c", "t", "{", " ", "s", "i",
    "z", "e", ":", " ", "(", "1", ",", " ", "2", ")", " ", "i", "d", ":",
    "\"", "b", "o", "x", "\"", " ", "}", " ", "@", "h", "o", "v", "e", "r",
    " ", "{", " ", "#", "b", "o", "x", " ", "{", " ", "s", "t", "r", "o",
    "k", "e", ":", " ", "#", "0", "0", "7", "0", "f", "3", " ", "}", " ",
    "}", " ", "}">>

\* g { on:click { a(); } g { on:click { b(); } } }
TwoClickGroupsText ==
  <<"g", " ", "{", " ", "o", "n", ":", "c", "l", "i", "c", "k", " ", "{",
    " ", "a", "(", ")", ";", " ", "}", " ", "g", " ", "{", " ", "o", "n",
    ":", "c", "l", "i", "c", "k", " ", "{", " ", "b", "(", ")", ";", " ",
    "}", " ", "}", " ", "}">>

\* circle { r: 3 on:click { a(); } on:focus, on:blur { b(); (newline)  c(); } }
ThreeListenersText ==
  <<"c", "i", "r", "c", "l", "e", " ", "{", " ", "r", ":", " ", "3", " ",
    "o", "n", ":", "c", "l", "i", "c", "k", " ", "{", " ", "a", "(", ")",
    ";", " ", "}", " ", "o", "n", ":", "f", "o", "c", "u", "s", ",", " ",
    "o", "n", ":", "b", "l", "u", "r", " ", "{", " ", "b", "(", ")", ";",
    "\n", " ", "c", "(", ")", ";", " ", "}", " ", "}">>

\* g { on:click { a(); } circle { r: 3 on:focus { b(); } } }
TwoOwnersText ==
  <<"g", " ", "{", " ", "o", "n", ":", "c", "l", "i", "c", "k", " ", "{",
    " ", "a", "(", ")", ";", " ", "}", " ", "c", "i", "r", "c", "l", "e",
    " ", "{", " ", "r", ":", " ", "3", " ", "o", "n", ":", "f", "o", "c",
    "u", "s", " ", "{", " ", "b", "(", ")", ";", " ", "}", " ", "}", " ",
    "}">>

\* rect { size: (1, 2) fill: "a&b<c>d" }
EscapedFillText ==
  <<"r", "e", "c", "t", " ", "{", " ", "s", "i", "z", "e", ":", " ", "(",
    "1", ",", " ", "2", ")", " ", "f", "i", "l", "l", ":", " ", "\"", "a",
    "&", "b", "<", "c", ">", "d", "\"", " ", "}">>

\* rect { size: (1, 2) fill: "&lt;&amp;" }
EntityFillText ==
  <<"r", "e", "c", "t", " ", "{", " ", "s", "i", "z", "e", ":", " ", "(",
    "1", ",", " ", "2", ")", " ", "f", "i", "l", "l", ":", " ", "\"", "&",
    "l", "t", ";", "&", "a", "m", "p", ";", "\"", " ", "}">>

\* rect { size: (1, 2) fill: 'say "hi"' }
QuotedFillText ==
  <<"r", "e", "c", "t", " ", "{", " ", "s", "i", "z", "e", ":", " ", "(",
    "1", ",", " ", "2", ")", " ", "f", "i", "l", "l", ":", " ", "'", "s",
    "a", "y", " ", "\"", "h", "i", "\"", "'", " ", "}">>

\* text { at: (1, 2) fill: "a&b" "x < y & z > \"q\" &gt;" }
EscapedTextChildText ==
  <<"t", "e", "x", "t", " ", "{", " ", "a", "t", ":", " ", "(", "1", ",",
    " ", "2", ")", " ", "f", "i", "l", "l", ":", " ", "\"", "a", "&", "b",
    "\"", " ", "\"", "x", " ", "<", " ", "y", " ", "&", " ", "z", " ", ">",
    " ", "\\", "\"", "q", "\\", "\"", " ", "&", "g", "t", ";", "\"", " ",
    "}">>

\* circle { r: 3 on:Click { a(); } }
UpperClickText ==
  <<"c", "i", "r", "c", "l", "e", " ", "{", " ", "r", ":", " ", "3", " ",
    "o", "n", ":", "C", "l", "i", "c", "k", " ", "{", " ", "a", "(", ")",
    ";", " ", "}", " ", "}">>

\* circle { r: 3 on:onclick { a(); } }
PrefixedClickText ==
  <<"c", "i", "r", "c", "l", "e", " ", "{", " ", "r", ":", " ", "3", " ",
    "o", "n", ":", "o", "n", "c", "l", "i", "c", "k", " ", "{", " ", "a",
    "(", ")", ";", " ", "}", " ", "}">>

\* circle { r: 3 on:tap { a(); } }
UnknownEventText ==
  <<"c", "i", "r", "c", "l", "e", " ", "{", " ", "r", ":", " ", "3", " ",
    "o", "n", ":", "t", "a", "p", " ", "{", " ", "a", "(", ")", ";", " ",
    "}", " ", "}">>

\* circle { r: 3 on:CLICK, on:focus { a(); } }
MixedEventsText ==
  <<"c", "i", "r", "c", "l", "e", " ", "{", " ", "r", ":", " ", "3", " ",
    "o", "n", ":", "C", "L", "I", "C", "K", ",", " ", "o", "n", ":", "f",
    "o", "c", "u", "s", " ", "{", " ", "a", "(", ")", ";", " ", "}", " ",
    "}">>

\* a -b -1 -.5 - / /* c */ // d (newline) $v "s" 1.5 % ^ . ; #f	,
LexicalMixText ==
  <<"a", " ", "-", "b", " ", "-", "1", " ", "-", ".", "5", " ", "-", " ",
    "/", " ", "/", "*", " ", "c", " ", "*", "/", " ", "/", "/", " ", "d",
    "\n", "$", "v", " ", "\"", "s", "\"", " ", "1", ".", "5", " ", "%", " ",
    "^", " ", ".", " ", ";", " ", "#", "f", "\t", ",">>

\* g { } (newline)  (newline) 
TrailingNewlinesText ==
  <<"g", " ", "{", " ", "}", "\n", "\n">>

\*  	 
OnlySpacesText ==
  <<" ", "\t", " ">>

\* /
OnlySlashText ==
  <<"/">>

BaseTexts ==
  {DirectivesText, HoverRectText, NestedGroupsText, ClickCircleText,
   EmptyLineText, EmptyRectText, EmptyGroupText, CircleWithoutRadiusText,
   LineWithoutToText, NestedEmptyLineText, ReadmeRectText, QuotedStrokeRectText,
   VarsSizeText, InlinedSizeText, UndeclaredText, VarsReferenceText,
   VarsHoverText, DollarHoverText, SpotLightText, SpotLightPairText,
   SpotLightFourText, EmptyTupleText, ScalarSizeText, BoxText, PreserveText,
   TextAndStyleText, UnterminatedText, BooleanStringText,
   BooleanQuotedTrueText, BooleanUpperText, BooleanMixedText,
   BooleanNumberText, BooleanTupleText, BooleanOtherText, UndeclaredFooText,
   LegacyXText, UndeclaredLastText, NestedUndeclaredText, QuotedBraceText,
   CommentBraceText, TemplateBraceText, BlockCommentBraceText,
   SingleQuoteBraceText, EscapedQuoteText, TopLevelStringText,
   UnterminatedCommentText, UnterminatedTemplateText, EscapedBacktickText,
   NestedTemplateText, StringInTemplateText, UnitSecondsText, UnitPercentText,
   UnitQText, UnitHertzText, UnitUpperText, ExceptionBeforeEventText,
   ExceptionBeforeAttributeText, ExceptionLastText, ExceptionTupleText,
   ExceptionBeforeChildText, SpecialBlocksText, UpperStyleText,
   StyleWithoutBlockText, AllSectionsText, OnlyStyleBlockText, EmptyHoverText,
   HoverBoxText, HoverBoxSizedText, TwoClickGroupsText, ThreeListenersText,
   TwoOwnersText, EscapedFillText, EntityFillText, QuotedFillText,
   EscapedTextChildText, UpperClickText, PrefixedClickText, UnknownEventText,
   MixedEventsText, LexicalMixText, TrailingNewlinesText, OnlySpacesText,
   OnlySlashText}

\* Elements written after a base text, each on a line of its own.
SiblingTexts == {HoverRectText, EmptyLineText}

SiblingRuns == UNION {[1..n -> SiblingTexts] : n \in 0..MaxSiblings}

\* The source texts that the first call of compile is given.
Documents ==
  {base \o Flatten([i \in 1..Len(run) |-> <<"\n">> \o run[i]]) :
     base \in BaseTexts, run \in SiblingRuns}

\* The texts of the other calls: one that compiles and one that fails.
OtherTexts == {InlinedSizeText, EmptyRectText}

\* No result yet: the call is running.
Pending == [ok |-> FALSE, error |-> [name |-> "pending"]]

NoAst == <<>>

\* No tuple has been handed to the validator.
NotChecked == [ok |-> FALSE, error |-> [name |-> "pending"]]

ValidatorIdle ==
  /\ checked = <<>>
  /\ verdict = NotChecked

\* runMirrow has not been called.
CliIdle ==
  /\ options = <<>>
  /\ disk = <<>>
  /\ frames = <<>>
  /\ status = [state |-> "idle", reason |-> ""]
  /\ log = <<>>

\* No queue has been created.
WatchIdle ==
  /\ waiting = <<>>
  /\ running = <<>>
  /\ trace = <<>>
  /\ logged = <<>>

\* compile has not been called.
CompileIdle ==
  /\ code = <<>>
  /\ pc = "idle"
  /\ tokens = <<>>
  /\ ast = NoAst
  /\ outcome = Pending
  /\ svgKeywordStore = EmptyKeywordStore
  /\ calls = [done |-> 0, others |-> 0]
  /\ first = [code |-> <<>>, outcome |-> Pending]

Init ==
  /\ ValidatorIdle
  /\ CliIdle
  /\ WatchIdle
  /\ code \in Documents
  /\ pc = "tokenize"
  /\ tokens = <<>>
  /\ ast = NoAst
  /\ outcome = Pending
  /\ svgKeywordStore = EmptyKeywordStore
  /\ calls = [done |-> 0, others |-> 0]
  /\ first = [code |-> code, outcome |-> Pending]

\* compile returns result or throws result.error: the call is over, and the
\* first call's result is kept for comparison with the later ones.
Return(result) ==
  /\ outcome' = result
  /\ pc' = "done"
  /\ calls' = [calls EXCEPT !.done = @ + 1]
  /\ first' = IF calls.done = 0 THEN [first EXCEPT !.outcome = result] ELSE first

\* const tokens = tokenize(code)
Tokenize ==
  /\ pc = "tokenize"
  /\ \E lexed \in {Call("tokenize", <<code>>)} :
        IF lexed.ok
          THEN /\ tokens' = lexed.value
               /\ pc' = "parse"
               /\ UNCHANGED <<outcome, calls, first>>
          ELSE /\ Return([ok |-> FALSE, error |-> lexed.error])
               /\ UNCHANGED tokens
  /\ UNCHANGED <<code, ast, svgKeywordStore, validatorVars, cliVars, watchVars>>

\* const ast = parse(tokens): new Parser(tokens) asks getSvgKeywords() for
\* the catalog, which builds it if no call has yet.
Parse ==
  /\ pc = "parse"
  /\ \E keywords \in {getSvgKeywords} :
     \E parsed \in {Call("parse", <<NewParser(tokens, keywords)>>)} :
        /\ svgKeywordStore' = keywords
        /\ IF parsed.ok
             THEN /\ ast' = parsed.value
                  /\ pc' = "compile"
                  /\ UNCHANGED <<outcome, calls, first>>
             ELSE /\ Return([ok |-> FALSE, error |-> parsed.error])
                  /\ UNCHANGED ast
  /\ UNCHANGED <<code, tokens, validatorVars, cliVars, watchVars>>

\* return compileAst(ast[0], ast[1])
CompileAst ==
  /\ pc = "compile"
  /\ \E keywords \in {getSvgKeywords} :
     \E compiled \in {Call("compileAst", <<ast[1], ast[2], keywords>>)} :
        /\ svgKeywordStore' = keywords
        /\ IF compiled.ok
             THEN Return([ok |-> TRUE, value |-> compiled.value])
             ELSE Return([ok |-> FALSE, error |-> compiled.error])
  /\ UNCHANGED <<code, tokens, ast, validatorVars, cliVars, watchVars>>

\* compile(text) is called once the call before has returned.
Invoke(text) ==
  /\ pc = "done"
  /\ calls.done < MaxCalls
  /\ code' = text
  /\ pc' = "tokenize"
  /\ tokens' = <<>>
  /\ ast' = NoAst
  /\ outcome' = Pending
  /\ UNCHANGED <<svgKeywordStore, first, validatorVars, cliVars, watchVars>>

\* The first call's text is compiled again.
Recompile ==
  /\ Invoke(first.code)
  /\ UNCHANGED calls

\* Another text is compiled.
CompileOther ==
  /\ \E text \in OtherTexts : Invoke(text)
  /\ calls' = [calls EXCEPT !.others = @ + 1]

Next ==
  \/ Tokenize
  \/ Parse
  \/ CompileAst
  \/ Recompile
  \/ CompileOther

Spec == Init /\ [][Next]_vars

(***************************************************************************)
(* Properties of compile, stated over the states of Spec.                  *)
(***************************************************************************)

\* text.startsWith(prefix) and text.includes(part), for texts and messages
StartsWith(text, prefix) ==
  Len(text) >= Len(prefix) /\ SubSeq(text, 1, Len(prefix)) = prefix

Includes(text, part) ==
  \E i \in 1..(Len(text) - Len(part) + 1) : SubSeq(text, i, i + Len(part) - 1) = part

RECURSIVE ElementsOf(_)
\* The element nodes among children, each followed by its descendants.
ElementsOf(children) ==
  Flatten([i \in 1..Len(children) |->
             IF children[i].type = "Element"
               THEN <<children[i]>> \o ElementsOf(children[i].children)
               ELSE <<>>])

\* The element nodes of the tree that parse returned to the running call.
AstElements == IF ast = NoAst THEN <<>> ELSE ElementsOf(ast[1].children)

\* The running call has returned a text.
Compiled == pc = "done" /\ outcome.ok

\* The running call has thrown a ParserError.
ThrewParserError == pc = "done" /\ ~outcome.ok /\ outcome.error.name = "ParserError"

\* C1: a text that compiled at the first call of the process compiles to the
\* same string at every later call, whatever was compiled in between and
\* whenever the keyword catalog was built.
CompileIsDeterministic ==
  (pc = "done" /\ calls.done > 1 /\ code = first.code /\ first.outcome.ok)
    => outcome.ok /\ Str(outcome.value) = Str(first.outcome.value)

\* The first text, with directives, compiled again after other calls.
CompiledAgainAfterOthers ==
  /\ Compiled
  /\ calls.done > 2
  /\ calls.others > 0
  /\ code = first.code
  /\ first.outcome.ok
  /\ Includes(Str(outcome.value), "data-identifier")

\* C2: in a document that compiled, no two distinct elements that own
\* directives share a dataId, be they siblings or a parent and its descendant.
DataIdsAreUnique ==
  Compiled =>
    LET elements == AstElements
    IN \A i, j \in 1..Len(elements) :
          (i # j /\ elements[i].dataId # NullId)
            => elements[i].dataId # elements[j].dataId

\* The elements that own both a CSS-state directive and an event directive.
ElementsWithBoth ==
  SelectSeq(AstElements,
            LAMBDA e : Len(e.cssStates) > 0 /\ Len(e.jsEvents) > 0)

\* C3: an element with both a CSS-state directive and an event directive has
\* one dataId; each of its directives carries it, and the compiled text has
\* it in the element's data-identifier attribute, in the selector of each of
\* its style rules and in the querySelector lookup of its script.
DirectivesShareElementId ==
  \A k \in 1..Len(ElementsWithBoth) :
     LET e == ElementsWithBoth[k]
         text == Str(outcome.value)
     IN /\ e.dataId # NullId
        /\ \A i \in 1..Len(e.cssStates) : e.cssStates[i].dataId = e.dataId
        /\ \A i \in 1..Len(e.jsEvents) : e.jsEvents[i].dataId = e.dataId
        /\ Compiled =>
             /\ Includes(text, "<" \o e.name \o " data-identifier=\""
                               \o e.dataId \o "\"")
             /\ \A i \in 1..Len(e.cssStates) :
                   Includes(text, "[data-identifier=\"" \o e.dataId \o "\"]:"
                                  \o Str(e.cssStates[i].name) \o " {")
             /\ Includes(text, "document.querySelector('[data-identifier=\""
                               \o e.dataId \o "\"]')")

\* A nested element with two CSS states and an event has been compiled.
CompiledElementWithBoth ==
  /\ Compiled
  /\ \E k \in 1..Len(ElementsWithBoth) :
        /\ Len(ElementsWithBoth[k].cssStates) > 1
        /\ ElementsWithBoth[k].dataId # NullId
  /\ Includes(Str(outcome.value), "document.querySelector(")

\* The names of the required attributes of keyword that attributes lacks.
MissingRequired(keyword, attributes) ==
  {keyword.attributes[i].name : i \in
     {i \in 1..Len(keyword.attributes) :
        /\ keyword.attributes[i].required
        /\ \A a \in 1..Len(attributes) :
              Str(attributes[a].name) # keyword.attributes[i].name}}

\* The text starts with an element of the catalog and its block.
StartsWithElement ==
  /\ Len(tokens) > 1
  /\ tokens[1].type = "IDENTIFIER"
  /\ tokens[2].type = "BLOCK"
  /\ ~isSpecialCodeblock(tokens[1].value).valid
  /\ Str(tokens[1].value) \in DOMAIN svgKeywordStore

\* C4: no element that parse returns lacks an attribute its keyword
\* requires; and when the block of the first element of the text, an empty
\* block included, parses without error but lacks a required attribute, the
\* call throws the ParserError "Attribute '<name>' is required on <element>"
\* for a missing attribute and returns no tree.
RequiredAttributesAreEnforced ==
  /\ \A k \in 1..Len(AstElements) :
        MissingRequired(svgKeywordStore[AstElements[k].name],
                        AstElements[k].attributes) = {}
  /\ (pc = "done" /\ StartsWithElement) =>
       \E keyword \in {svgKeywordStore[Str(tokens[1].value)]} :
       \E entries \in {Call("parseElementBlock",
                            <<NewParser(tokens, svgKeywordStore), keyword,
                              tokens[2]>>)} :
          (entries.ok /\ MissingRequired(keyword, entries.value.attributes) # {})
            => /\ ThrewParserError
               /\ \E name \in MissingRequired(keyword, entries.value.attributes) :
                     outcome.error.message = "Attribute '" \o name
                        \o "' is required on <" \o keyword.name \o ">"
               /\ ast = NoAst
  /\ (pc = "done" /\ code = NestedEmptyLineText) =>
       /\ ThrewParserError
       /\ \E name \in MissingRequired(svgKeywordStore["line"], <<>>) :
             outcome.error.message = "Attribute '" \o name
                \o "' is required on <line>"
       /\ ast = NoAst

\* A line whose block gives from and stroke but not to has been rejected.
RejectedLineWithoutTo ==
  /\ ThrewParserError
  /\ StartsWithElement
  /\ Str(tokens[1].value) = "line"
  /\ Len(trim(SubSeq(tokens[2].value, 2, Len(tokens[2].value) - 1))) > 0
  /\ outcome.error.message = "Attribute 'to' is required on <line>"

\* C5: the rect of the README, with the bare colour value stroke: #333,
\* compiles, and its markup carries the attributes in source order.
ReadmeRectCompiles ==
  (pc = "done" /\ code = ReadmeRectText) =>
    /\ Compiled
    /\ Includes(Str(outcome.value),
                "<rect x=\"20\" y=\"20\" width=\"100px\" height=\"100px\""
                \o " rx=\"8\" ry=\"8\" stroke=\"#333\" stroke-width=\"2\""
                \o " id=\"box\"")

\* C6: a text with a vars block and $width in a tuple compiles to what the
\* same text with the declared literal in place of $width compiles to.
VariableEqualsInlinedLiteral ==
  (pc = "done" /\ calls.done > 1 /\ first.code = VarsSizeText
     /\ code = InlinedSizeText /\ Compiled) =>
    /\ first.outcome.ok
    /\ Str(first.outcome.value) = Str(outcome.value)

\* C7: a tuple item that references a variable no vars block declares makes
\* the call throw the ParserError "Variable '$undeclared' is not defined".
UndeclaredVariableIsNamed ==
  (pc = "done" /\ code = UndeclaredText) =>
    /\ ThrewParserError
    /\ Includes(outcome.error.message, "Variable '$undeclared' is not defined")

\* C8: a vars declaration whose value is a variable reference makes the call
\* throw the ParserError "Invalid variable value ... Variables can only
\* contain literal values".
ReferenceInDeclarationIsRejected ==
  (pc = "done" /\ code = VarsReferenceText) =>
    /\ ThrewParserError
    /\ StartsWith(outcome.error.message, "Invalid variable value")
    /\ Includes(outcome.error.message,
                "Variables can only contain literal values")

\* C9: $c in the body of an @hover directive, with c declared as red in the
\* vars block, is replaced by red in the style rule, the rest of the body
\* unchanged.
VariableIsReplacedInDirectiveBody ==
  (pc = "done" /\ code = VarsHoverText) =>
    /\ Compiled
    /\ Includes(Str(outcome.value), ":hover {\n  fill: red;\n}")

\* The tuple attributes of element e: [spec, value] for each attribute
\* whose spec on the keyword of e is a tuple spec.
TupleAttributes(e) ==
  LET keyword == svgKeywordStore[e.name]
      specOf(i) == getAttributeSpec(keyword, Str(e.attributes[i].name))
      tuples == SelectSeq([i \in 1..Len(e.attributes) |-> i],
                          LAMBDA i : specOf(i).type = "tuple")
  IN [k \in 1..Len(tuples) |->
        [spec |-> specOf(tuples[k]), value |-> e.attributes[tuples[k]].value]]

\* The text of a tuple item in an attribute of the markup.
ItemText(entry) ==
  Str(escapeAttributeValue(IF entry.type = "IdentifierLiteral"
                             THEN entry.name ELSE entry.value))

\* key1="item1" key2="item2" ...: the i-th item as the i-th key's attribute
ItemPerKey(keys, values) ==
  Str(Join([i \in 1..Len(keys) |->
              <<keys[i], "=\"", ItemText(values[i]), "\"">>], <<" ">>))

\* key="item1 item2 ...": the items in one attribute
ItemsInOneKey(key, values) ==
  key \o "=\""
  \o Str(Join([i \in 1..Len(values) |-> <<ItemText(values[i])>>], <<" ">>))
  \o "\""

\* Every value that parse accepts for a tuple attribute is a tuple of the
\* declared length.
TupleValuesHaveDeclaredLength ==
  \A k \in 1..Len(AstElements) :
     LET tuples == TupleAttributes(AstElements[k])
     IN \A t \in 1..Len(tuples) :
           /\ tuples[t].value.type = "TupleLiteral"
           /\ Len(tuples[t].value.values) = tuples[t].spec.length

\* When the first entry of the first element's block is a tuple attribute
\* whose value is no tuple, or a tuple of another length than declared, the
\* call throws 'expects a tuple', or 'expects a tuple of length n'.
TupleErrorsNameTheLength ==
  (pc = "done" /\ StartsWithElement) =>
    \E keyword \in {svgKeywordStore[Str(tokens[1].value)]} :
    \E lexed \in {Call("tokenize",
                       <<SubSeq(tokens[2].value, 2, Len(tokens[2].value) - 1)>>)} :
      (/\ lexed.ok
       /\ Len(lexed.value) > 2
       /\ lexed.value[1].type = "IDENTIFIER"
       /\ lexed.value[2].type = "COLON") =>
        \E spec \in {getAttributeSpec(keyword, Str(lexed.value[1].value))} :
        \E value \in {Call("parseAttributeValue",
                           <<[NewParser(lexed.value, svgKeywordStore)
                                EXCEPT !.index = 2]>>)} :
          (spec.type = "tuple" /\ value.ok) =>
            /\ value.value.type # "TupleLiteral" =>
                 /\ ThrewParserError
                 /\ outcome.error.message =
                      "Attribute '" \o spec.name \o "' on <" \o keyword.name
                      \o "> expects a tuple"
            /\ (/\ value.value.type = "TupleLiteral"
                /\ Len(value.value.values) # spec.length) =>
                 /\ ThrewParserError
                 /\ outcome.error.message =
                      "Attribute '" \o spec.name \o "' on <" \o keyword.name
                      \o "> expects a tuple of length " \o ToString(spec.length)

\* C10 as stated: a tuple value of another length than declared, or no tuple,
\* is rejected with its message, and the i-th item of an accepted tuple is
\* the i-th output attribute of the produce transform of the spec.
TupleItemsBecomeAttributes ==
  /\ TupleValuesHaveDeclaredLength
  /\ TupleErrorsNameTheLength
  /\ Compiled =>
       \A k \in 1..Len(AstElements) :
          LET tuples == TupleAttributes(AstElements[k])
          IN \A t \in 1..Len(tuples) :
                /\ Len(tuples[t].spec.produce.keys) = tuples[t].spec.length
                /\ Includes(Str(outcome.value),
                            ItemPerKey(tuples[t].spec.produce.keys,
                                       tuples[t].value.values))

\* C10, amended: as above, except that the transform of box and preserve
\* writes the items, in order and separated by spaces, into the one
\* attribute viewBox or preserveAspectRatio.
TupleItemsBecomeAttributesOrJoined ==
  /\ TupleValuesHaveDeclaredLength
  /\ TupleErrorsNameTheLength
  /\ Compiled =>
       \A k \in 1..Len(AstElements) :
          LET tuples == TupleAttributes(AstElements[k])
          IN \A t \in 1..Len(tuples) :
                IF tuples[t].spec.name \in {"box", "preserve"}
                  THEN /\ Len(tuples[t].spec.produce.keys) = 1
                       /\ Includes(Str(outcome.value),
                                   ItemsInOneKey(tuples[t].spec.produce.keys[1],
                                                 tuples[t].value.values))
                  ELSE /\ Len(tuples[t].spec.produce.keys) = tuples[t].spec.length
                       /\ Includes(Str(outcome.value),
                                   ItemPerKey(tuples[t].spec.produce.keys,
                                              tuples[t].value.values))

\* The four items of box have been compiled into viewBox.
CompiledBoxIntoViewBox ==
  /\ Compiled
  /\ \E k \in 1..Len(AstElements) :
        \E t \in 1..Len(TupleAttributes(AstElements[k])) :
           TupleAttributes(AstElements[k])[t].spec.name = "box"
  /\ Includes(Str(outcome.value), "viewBox=\"0 0 200 200\"")

\* The tokens of the block of the first element of the text, without its
\* outer braces, or <<>> when the text does not start with an element or the
\* block does not lex.
FirstBlockTokens ==
  IF StartsWithElement
    THEN LET raw == tokens[2].value
             lexed == Call("tokenize", <<SubSeq(raw, 2, Len(raw) - 1)>>)
         IN IF lexed.ok THEN lexed.value ELSE <<>>
    ELSE <<>>

\* The places in FirstBlockTokens of the entries name: value whose name
\* satisfies Named on the keyword of the first element.
EntriesOfFirstBlock(Named(_, _)) ==
  {i \in 1..(Len(FirstBlockTokens) - 2) :
     /\ FirstBlockTokens[i].type = "IDENTIFIER"
     /\ FirstBlockTokens[i + 1].type = "COLON"
     /\ Named(svgKeywordStore[Str(tokens[1].value)],
              Str(FirstBlockTokens[i].value))}

IsBooleanAttribute(keyword, name) == getAttributeSpec(keyword, name).type = "boolean"

\* token is the bare identifier true or false, in any letter case.
IsTrueOrFalse(token) ==
  token.type = "IDENTIFIER" /\ Str(toLowerCase(token.value)) \in {"true", "false"}

\* C11: every boolean attribute of an element that parse returns has a bare
\* identifier equal to true or false in any letter case as its value; and
\* when the block of the first element of the text has an entry of a
\* boolean attribute, the call throws the ParserError "... expects 'true' or
\* 'false'" if the token after the colon is anything else (a quoted string,
\* a number, the start of a tuple, another identifier), and throws no such
\* error if it is true or false.
BooleanAcceptsOnlyTrueOrFalse ==
  /\ \A k \in 1..Len(AstElements) :
     \A a \in 1..Len(AstElements[k].attributes) :
        LET attribute == AstElements[k].attributes[a]
        IN IsBooleanAttribute(svgKeywordStore[AstElements[k].name],
                              Str(attribute.name))
             => /\ attribute.value.type = "IdentifierLiteral"
                /\ Str(toLowerCase(attribute.value.name)) \in {"true", "false"}
  /\ pc = "done" =>
       \A i \in EntriesOfFirstBlock(IsBooleanAttribute) :
          IF IsTrueOrFalse(FirstBlockTokens[i + 2])
            THEN outcome.ok
                   \/ ~Includes(outcome.error.message, "expects 'true' or 'false'")
            ELSE /\ ThrewParserError
                 /\ Includes(outcome.error.message, "expects 'true' or 'false'")
                 /\ ast = NoAst

\* An element whose boolean attribute is given a quoted string, as in
\* circle { r: 10 filled: "yes" }, has been rejected.
RejectedQuotedFilled ==
  /\ ThrewParserError
  /\ \E i \in EntriesOfFirstBlock(IsBooleanAttribute) :
        FirstBlockTokens[i + 2].type = "STRING"
  /\ Includes(outcome.error.message, "expects 'true' or 'false'")

\* The spec list of keyword has no attribute called name, and name is not
\* the on of an event directive.
IsUndeclaredAttribute(keyword, name) ==
  /\ name # "on"
  /\ \A k \in 1..Len(keyword.attributes) : keyword.attributes[k].name # name

\* position a comes before position b in the same text.
Precedes(a, b) == a.line < b.line \/ (a.line = b.line /\ a.column < b.column)

\* C12: no attribute of an element that parse returns is absent from the
\* spec list of the element's keyword; and when the block of the first
\* element of the text has an entry name: value whose name the keyword does
\* not declare, the call throws a ParserError and returns no tree, and
\* unless an earlier entry of the block has failed the error is "Attribute
\* '<name>' is not allowed on <element>" for the first such entry. An
\* undeclared attribute of a nested element is rejected in the same way.
UndeclaredAttributesAreRejected ==
  /\ \A k \in 1..Len(AstElements) :
     \A a \in 1..Len(AstElements[k].attributes) :
        \E d \in 1..Len(svgKeywordStore[AstElements[k].name].attributes) :
           svgKeywordStore[AstElements[k].name].attributes[d].name
             = Str(AstElements[k].attributes[a].name)
  /\ (pc = "done" /\ EntriesOfFirstBlock(IsUndeclaredAttribute) # {}) =>
       \E i \in EntriesOfFirstBlock(IsUndeclaredAttribute) :
          /\ \A j \in EntriesOfFirstBlock(IsUndeclaredAttribute) : i <= j
          /\ ThrewParserError
          /\ ast = NoAst
          /\ \/ outcome.error.message
                  = "Attribute '" \o Str(FirstBlockTokens[i].value)
                      \o "' is not allowed on <" \o Str(tokens[1].value) \o ">"
             \/ Precedes(outcome.error.position, FirstBlockTokens[i].position)
  /\ (pc = "done" /\ code \in {UndeclaredFooText, UndeclaredLastText}) =>
       outcome.error.message = "Attribute 'foo' is not allowed on <rect>"
  /\ (pc = "done" /\ code = LegacyXText) =>
       outcome.error.message = "Attribute 'x' is not allowed on <foreignObject>"
  /\ (pc = "done" /\ code = NestedUndeclaredText) =>
       /\ ThrewParserError
       /\ outcome.error.message = "Attribute 'cx' is not allowed on <rect>"

\* A foreignObject whose block starts with the legacy entry x: 10 has been
\* rejected.
RejectedLegacyX ==
  /\ ThrewParserError
  /\ Str(tokens[1].value) = "foreignObject"
  /\ \E i \in EntriesOfFirstBlock(IsUndeclaredAttribute) :
        Str(FirstBlockTokens[i].value) = "x"
  /\ outcome.error.message = "Attribute 'x' is not allowed on <foreignObject>"

\* The line and the column of the i-th character of text, and the place of
\* the character at position.
LineOf(text, i) == 1 + Cardinality({j \in 1..(i - 1) : text[j] = "\n"})

ColumnOf(text, i) ==
  LET breaks == {j \in 1..(i - 1) : text[j] = "\n"}
  IN IF breaks = {} THEN i ELSE i - (CHOOSE j \in breaks : \A b \in breaks : b <= j)

OffsetOf(text, position) ==
  CHOOSE i \in 1..(Len(text) + 1) :
    LineOf(text, i) = position.line /\ ColumnOf(text, i) = position.column

\* What is open at a place of the text: its kind, the brace depth inside
\* it, its closing quote and the place where it was opened.
Frame(mode, quote, start) ==
  [mode |-> mode, depth |-> 1, quote |-> quote, start |-> start]

\* One character of the reading of a text: st = [stack, skip, end] holds the
\* open frames (the top level or a block, then what is open inside it: a
\* block, a quoted string, a template, a ${ } expression, a // comment, a
\* /* */ comment), whether the character is the second of a pair already
\* read, and the place of the '}' that closed the first frame, 0 before it.
\* Only braces read in a block or expression frame change that frame's
\* depth; a template opens only inside a block.
BlockEndStep(text, i, st) ==
  LET stack == st.stack
      top == stack[Len(stack)]
      ch == text[i]
      ch1 == IF i < Len(text) THEN text[i + 1] ELSE ""
      popped == SubSeq(stack, 1, Len(stack) - 1)
      code_ == top.mode \in {"top", "block", "expression"}
  IN CASE st.end # 0 -> st
       [] st.skip -> [st EXCEPT !.skip = FALSE]
       [] top.mode \in {"string", "template"} /\ ch = "\\" ->
            [st EXCEPT !.skip = TRUE]
       [] top.mode = "string" /\ ch = top.quote -> [st EXCEPT !.stack = popped]
       [] top.mode = "template" /\ ch = "$" /\ ch1 = "{" ->
            [st EXCEPT !.stack = Append(stack, Frame("expression", "", i)),
                       !.skip = TRUE]
       [] top.mode = "template" /\ ch = "~" -> [st EXCEPT !.stack = popped]
       [] top.mode = "line" /\ ch = "\n" -> [st EXCEPT !.stack = popped]
       [] top.mode = "comment" /\ ch = "*" /\ ch1 = "/" ->
            [st EXCEPT !.stack = popped, !.skip = TRUE]
       [] code_ /\ ch \in {"\"", "'"} ->
            [st EXCEPT !.stack = Append(stack, Frame("string", ch, i))]
       [] code_ /\ top.mode # "top" /\ ch = "~" ->
            [st EXCEPT !.stack = Append(stack, Frame("template", "", i))]
       [] code_ /\ ch = "/" /\ ch1 = "/" ->
            [st EXCEPT !.stack = Append(stack, Frame("line", "", i)), !.skip = TRUE]
       [] code_ /\ ch = "/" /\ ch1 = "*" ->
            [st EXCEPT !.stack = Append(stack, Frame("comment", "", i)),
                       !.skip = TRUE]
       [] top.mode = "top" /\ ch = "{" ->
            [st EXCEPT !.stack = Append(stack, Frame("block", "", i))]
       [] top.mode = "top" /\ ch = "}" -> st
       [] code_ /\ ch = "{" -> [st EXCEPT !.stack[Len(stack)].depth = @ + 1]
       [] code_ /\ ch = "}" /\ top.depth > 1 ->
            [st EXCEPT !.stack[Len(stack)].depth = @ - 1]
       [] code_ /\ ch = "}" /\ Len(stack) = 1 -> [st EXCEPT !.end = i]
       [] code_ /\ ch = "}" -> [st EXCEPT !.stack = popped]
       [] OTHER -> st

RECURSIVE BlockEndRange(_, _, _, _)
\* BlockEndStep for the characters lo..hi of text in turn.
BlockEndRange(text, lo, hi, st) ==
  IF lo > hi THEN st
  ELSE IF lo = hi THEN BlockEndStep(text, lo, st)
  ELSE LET left == BlockEndRange(text, lo, (lo + hi) \div 2, st)
       IN IF left.end # 0 THEN left
          ELSE BlockEndRange(text, (lo + hi) \div 2 + 1, hi, left)

\* The place in text of the '}' that closes the block whose '{' is the
\* character before the i-th; 0 when the text ends first.
BlockEnd(text, i) ==
  BlockEndRange(text, i, Len(text),
                [stack |-> <<Frame("block", "", i - 1)>>, skip |-> FALSE, end |-> 0]).end

\* The BLOCK tokens among the tokens of the running call.
BlockTokens == {k \in 1..Len(tokens) : tokens[k].type = "BLOCK"}

\* C13: every BLOCK token that tokenize returns is the part of the text
\* from the '{' at the token's position to the first '}' at which the brace
\* depth is back at zero, the braces inside quoted strings, template text
\* and comments not counted and those of a ${ } expression counted apart.
BlockTokenIsBalancedSubstring ==
  \A k \in BlockTokens :
     LET start == OffsetOf(code, tokens[k].position)
         end == BlockEnd(code, start + 1)
     IN /\ code[start] = "{"
        /\ end # 0
        /\ tokens[k].value = SubSeq(code, start, end)

\* A block whose body has a '}' in a // comment and one in a quoted string
\* has been read whole and compiled.
BlockWithBracesInBody ==
  /\ Compiled
  /\ \E k \in BlockTokens :
        /\ Includes(Str(tokens[k].value), "// }")
        /\ Includes(Str(tokens[k].value), "\"}\"")
        /\ OffsetOf(code, tokens[k].position) + Len(tokens[k].value) - 1 = Len(code)

\* What is still open at the end of the text of the running call, the
\* innermost last: the frames other than the top level and a // comment,
\* which the end of the text closes.
OpenAtEnd ==
  LET st == BlockEndRange(code, 1, Len(code),
                          [stack |-> <<Frame("top", "", 0)>>, skip |-> FALSE,
                           end |-> 0])
  IN SelectSeq(st.stack, LAMBDA f : f.mode \notin {"top", "line"})

\* C14: when a quoted string, a /* */ comment, a template of a block or a
\* brace block of the text is still open at the end of the text, tokenize
\* throws a LexerError and the call has no token list; when the innermost
\* of them is a quoted string, an escaped quote not closing it, the error's
\* position is the line and column of the opening quote.
UnterminatedInputIsRejected ==
  (pc # "tokenize" /\ OpenAtEnd # <<>>) =>
    LET innermost == OpenAtEnd[Len(OpenAtEnd)]
    IN /\ pc = "done"
       /\ ~outcome.ok
       /\ outcome.error.name = "LexerError"
       /\ tokens = <<>>
       /\ ast = NoAst
       /\ innermost.mode = "string" =>
            outcome.error.position
              = [line |-> LineOf(code, innermost.start),
                 column |-> ColumnOf(code, innermost.start)]

\* A text whose last string is opened in a block and followed by an escaped
\* quote only has been rejected at the opening quote.
RejectedEscapedQuote ==
  /\ pc = "done"
  /\ ~outcome.ok
  /\ outcome.error.name = "LexerError"
  /\ Len(OpenAtEnd) = 2
  /\ OpenAtEnd[2].mode = "string"
  /\ code[OpenAtEnd[2].start + 2] = "\\"
  /\ code[OpenAtEnd[2].start + 3] = "\""
  /\ outcome.error.position.column = ColumnOf(code, OpenAtEnd[2].start)

\* The places in FirstBlockTokens where a value starts: after the colon of
\* an entry (attribute value) or after '(' or ',' (tuple item).
AttributeValuePlaces ==
  {j \in 2..Len(FirstBlockTokens) : FirstBlockTokens[j - 1].type = "COLON"}

TupleItemPlaces ==
  {j \in 2..Len(FirstBlockTokens) :
     FirstBlockTokens[j - 1].type \in {"LEFT_PAREN", "COMMA"}}

\* The token at place j is a number and the next one is a unit of
\* CSS_UNIT_SUFFIXES, compared by lowercase text.
IsNumberWithUnit(j) ==
  /\ j < Len(FirstBlockTokens)
  /\ FirstBlockTokens[j].type = "NUMBER"
  /\ \E unit \in CSS_UNIT_SUFFIXES :
        toLowerCase(Chars(unit)) = toLowerCase(FirstBlockTokens[j + 1].value)

\* parsed is the string literal of the texts of the n tokens from place j
\* on, with the parser left after them.
IsStringLiteralOfTokens(parsed, j, text, n) ==
  /\ parsed.ok
  /\ parsed.value.type = "StringLiteral"
  /\ parsed.value.value = text
  /\ parsed.p.index = j - 1 + n

\* C15: in the block of the first element of the text, a number followed by
\* a unit of CSS_UNIT_SUFFIXES, compared by lowercase text, at the place of
\* an attribute value or of a tuple item is parsed as one string literal,
\* the number text followed by the unit text, and the two tokens are
\* consumed; so circle { r: 5Q } compiles with r="5Q".
UnitIsFusedWithNumber ==
  /\ \A j \in AttributeValuePlaces \cup TupleItemPlaces :
        IsNumberWithUnit(j) =>
          IsStringLiteralOfTokens(
            Call(IF j \in TupleItemPlaces THEN "parseTupleItem"
                                          ELSE "parseAttributeValue",
                 <<[NewParser(FirstBlockTokens, svgKeywordStore)
                      EXCEPT !.index = j - 1]>>),
            j, FirstBlockTokens[j].value \o FirstBlockTokens[j + 1].value, 2)
  /\ (pc = "done" /\ code = UnitQText) =>
       /\ Compiled
       /\ Includes(Str(outcome.value), "r=\"5Q\"")

\* The token at place j is one of the bare keywords infinite, none, auto.
IsCssExceptionKeyword(j) ==
  /\ FirstBlockTokens[j].type = "IDENTIFIER"
  /\ Str(FirstBlockTokens[j].value) \in cssExceptions

\* C16: in the block of the first element of the text, a bare infinite,
\* none or auto at the place of an attribute value or of a tuple item is
\* parsed as the string literal of exactly that keyword, whatever token
\* follows it, and one token is consumed; so fill: none before an on:click
\* directive compiles to fill="none".
ExceptionKeywordIsKeptWhole ==
  /\ \A j \in AttributeValuePlaces \cup TupleItemPlaces :
        IsCssExceptionKeyword(j) =>
          IsStringLiteralOfTokens(
            Call(IF j \in TupleItemPlaces THEN "parseTupleItem"
                                          ELSE "parseAttributeValue",
                 <<[NewParser(FirstBlockTokens, svgKeywordStore)
                      EXCEPT !.index = j - 1]>>),
            j, FirstBlockTokens[j].value, 1)
  /\ (pc = "done" /\ code = ExceptionBeforeEventText) =>
       /\ Compiled
       /\ Includes(Str(outcome.value), "fill=\"none\"")

\* The places in the tokens of the running call of the pairs that parse
\* takes for special blocks: an identifier style or script, in any letter
\* case, with a BLOCK token next to it.
SpecialPairStarts ==
  {k \in 1..(Len(tokens) - 1) :
     /\ tokens[k].type = "IDENTIFIER"
     /\ Str(toLowerCase(tokens[k].value)) \in {"style", "script"}
     /\ tokens[k + 1].type = "BLOCK"}

\* The members of the set of places S in rising order.
InOrder(S) ==
  [i \in 1..Cardinality(S) |->
     CHOOSE k \in S : Cardinality({m \in S : m < k}) = i - 1]

\* The tokens that are in no such pair, the last token (EOF) left out.
CarriedTokens ==
  LET kept == {k \in 1..(Len(tokens) - 1) :
                 k \notin SpecialPairStarts /\ (k - 1) \notin SpecialPairStarts}
  IN [i \in 1..Cardinality(kept) |-> tokens[InOrder(kept)[i]]]

\* One SpecialBlock for each pair, in source order: the block text without
\* its outer braces, trimmed.
ExpectedSpecialBlocks ==
  [i \in 1..Cardinality(SpecialPairStarts) |->
     LET k == InOrder(SpecialPairStarts)[i]
     IN [type |-> "SpecialBlock",
         style |-> Str(toLowerCase(tokens[k].value)),
         content |-> trim(SubSeq(tokens[k + 1].value, 2,
                                 Len(tokens[k + 1].value) - 1)),
         position |-> tokens[k].position]]

\* C17: the first loop of parse takes out of the top-level tokens exactly
\* the pairs of an identifier style or script and the BLOCK token next to
\* it, one SpecialBlock each, in source order, with the trimmed inside of
\* the block as content; the second stream is every other token, unchanged
\* and in order, and one EOF token; and the tree that parse returns has
\* those special blocks and one element for each carried identifier.
SpecialBlocksAreSplitOff ==
  (pc # "tokenize" /\ tokens # <<>>) =>
    LET phase1 == Call("parseSpecialBlocks", <<NewParser(tokens, svgKeywordStore)>>)
        n == Len(phase1.newGenTokens)
    IN /\ SubSeq(phase1.newGenTokens, 1, n - 1) = CarriedTokens
       /\ phase1.newGenTokens[n].type = "EOF"
       /\ \A k \in 1..(n - 1) : phase1.newGenTokens[k].type # "EOF"
       /\ phase1.specialBlocks = ExpectedSpecialBlocks
       /\ ast # NoAst =>
            /\ ast[2] = ExpectedSpecialBlocks
            /\ Len(ast[1].children)
                 = Cardinality({k \in 1..Len(CarriedTokens) :
                                  CarriedTokens[k].type = "IDENTIFIER"})

\* A text with a script block before an element and a style and a script
\* block after it has been parsed and compiled.
ParsedThreeSpecialBlocks ==
  /\ Compiled
  /\ Len(ast[2]) = 3
  /\ ast[2][1].style = "script"
  /\ ast[2][2].style = "style"
  /\ Str(ast[2][2].content) = ".a { }"
  /\ 1 \in SpecialPairStarts
  /\ Len(ast[1].children) > 0

\* Some element of the tree has a CSS-state directive, an event directive.
HasCssDirective == \E k \in 1..Len(AstElements) : AstElements[k].cssStates # <<>>

HasJsDirective == \E k \in 1..Len(AstElements) : AstElements[k].jsEvents # <<>>

\* The texts of sections, those that are empty left out, one after the
\* other with a line break between them.
SectionsText(sections) ==
  Str(Join(SelectSeq(sections, LAMBDA s : Len(s) > 0), <<"\n">>))

\* The section <tag>, content, </tag>, each on lines of its own.
TaggedSection(tag, content) == <<"<" \o tag \o ">\n">> \o content \o <<"\n</" \o tag \o ">">>

\* C18: the text compileAst returns is, in this order, the markup of the
\* top-level elements in source order, the generated style section if there
\* is one, the generated script section if there is one, and one section
\* for each special block in source order with the block's content
\* unchanged; there is a generated style section only when some element has
\* a CSS-state directive and a generated script section only when some
\* element has an event directive.
SectionsAreInOrder ==
  Compiled =>
    LET context == [keywords |-> svgKeywordStore, cssDirectives |-> <<>>,
                    jsDirectives |-> <<>>,
                    variables |-> Call("buildVariableContext", <<ast[1]>>)]
        elements == Call("compileNodes", <<ast[1].children, context, 0, TRUE>>)
        markup == Join(elements.compiled, <<"\n">>)
        css == Call("renderCssDirectives", <<elements.context.cssDirectives>>)
        js == Call("renderJsDirectives", <<elements.context.jsDirectives>>)
        generated ==
          (IF Len(css) > 0 THEN <<TaggedSection("style", css)>> ELSE <<>>)
          \o (IF Len(js) > 0 THEN <<TaggedSection("script", js)>> ELSE <<>>)
        passthrough ==
          [i \in 1..Len(ast[2]) |-> TaggedSection(ast[2][i].style, ast[2][i].content)]
    IN /\ Len(elements.compiled) = Len(ast[1].children)
       /\ Str(outcome.value) = SectionsText(<<markup>> \o generated \o passthrough)
       /\ Len(css) > 0 => HasCssDirective
       /\ Len(js) > 0 => HasJsDirective

\* A text with a style block before and a script block after an element
\* with an @hover and an on:click directive has been compiled: the two
\* generated sections come before the two passed through.
CompiledAllSections ==
  /\ Compiled
  /\ HasCssDirective
  /\ HasJsDirective
  /\ Len(ast[2]) = 2
  /\ 1 \in SpecialPairStarts
  /\ Includes(Str(outcome.value),
              "</script>\n<style>\n.a { }\n</style>\n<script>\nb();\n</script>")

\* How many times part occurs in text.
CountOf(text, part) ==
  Cardinality({i \in 1..(Len(text) - Len(part) + 1) :
                 SubSeq(text, i, i + Len(part) - 1) = part})

\* The CssStateDirectives of the tree, each as [element, directive].
CssDirectivesOfTree ==
  UNION {{<<k, d>> : d \in 1..Len(AstElements[k].cssStates)} :
           k \in 1..Len(AstElements)}

\* The start of the rule of directive d of element k, and whether the body
\* of the directive is empty or only whitespace.
RuleStart(k, d) ==
  "[data-identifier=\"" \o AstElements[k].dataId \o "\"]:"
    \o Str(AstElements[k].cssStates[d].name) \o " {"

HasEmptyBody(k, d) ==
  LET block == AstElements[k].cssStates[d].block
  IN Len(trim(SubSeq(block, 2, Len(block) - 1))) = 0

\* C19: the text compile returns has one rule for each CssStateDirective of
\* the element tree, each state of a group @a, @b { ... } being one
\* directive with the body of the group: as many rules as directives, and
\* for each selector [data-identifier="<dataId of the element>"]:<state> as
\* many rules as directives of that element id and state; the rule of a
\* directive whose body is empty or only whitespace has the block {}.
OneRulePerCssStateDirective ==
  Compiled =>
    /\ CountOf(Str(outcome.value), "\n[data-identifier=\"")
         = Cardinality(CssDirectivesOfTree)
    /\ \A <<k, d>> \in CssDirectivesOfTree :
          /\ CountOf(Str(outcome.value), "\n" \o RuleStart(k, d))
               = Cardinality({<<k2, d2>> \in CssDirectivesOfTree :
                                RuleStart(k2, d2) = RuleStart(k, d)})
          /\ HasEmptyBody(k, d)
               => Includes(Str(outcome.value), "\n" \o RuleStart(k, d) \o "}\n")
          /\ ~HasEmptyBody(k, d)
               => Includes(Str(outcome.value), "\n" \o RuleStart(k, d) \o "\n  ")

\* An element with an @hover directive of empty body and a group @focus,
\* @active whose body is a line break has been compiled into three rules.
CompiledEmptyRules ==
  /\ Compiled
  /\ Cardinality(CssDirectivesOfTree) = 3
  /\ \A <<k, d>> \in CssDirectivesOfTree : HasEmptyBody(k, d)
  /\ Includes(Str(outcome.value), ":focus {}\n")
  /\ Includes(Str(outcome.value), ":active {}\n")

\* The text compile returned has exactly one rule in its generated style
\* section: that of :hover for the id of the svg element, the first of the
\* tree, with the text of the @hover block as body.
HasOneHoverRuleOfSvg ==
  /\ Compiled
  /\ AstElements[1].name = "svg"
  /\ CountOf(Str(outcome.value), "\n[data-identifier=\"") = 1
  /\ Includes(Str(outcome.value),
              "<style>\n[data-identifier=\"" \o AstElements[1].dataId
                \o "\"]:hover {\n  #box { stroke: #0070f3 }\n}\n</style>")

\* C20 as stated: svg { rect{ id:"box" } @hover { #box { stroke: #0070f3 } } }
\* compiles, and its generated style section has exactly one rule, with the
\* selector [data-identifier="<id>"]:hover for the id of the svg element and
\* the text of the @hover block as body.
HoverBoxCompiles ==
  (pc = "done" /\ code = HoverBoxText) => HasOneHoverRuleOfSvg

\* C20, amended: that text is rejected with the ParserError "Attribute
\* 'size' is required on <rect>", since its rect has no size; the same text
\* with size: (1, 2) in the rect compiles, and its generated style section
\* has exactly that one rule.
HoverBoxNeedsSize ==
  /\ (pc = "done" /\ code = HoverBoxText) =>
       /\ ThrewParserError
       /\ outcome.error.message = "Attribute 'size' is required on <rect>"
       /\ ast = NoAst
  /\ (pc = "done" /\ code = HoverBoxSizedText) => HasOneHoverRuleOfSvg

\* The text with the rect without size has been rejected.
RejectedHoverBox ==
  /\ ThrewParserError
  /\ code = HoverBoxText
  /\ Includes(outcome.error.message, "is required on <rect>")

\* The elements of the tree that own at least one event directive.
EventOwners == {k \in 1..Len(AstElements) : AstElements[k].jsEvents # <<>>}

\* The listener that the script registers for an event directive: its
\* handler body is the content of the directive's block.
ExpectedListener(directive) ==
  LET body == Str(indentBlock(extractBlockContent(directive.block), "    "))
  IN "  element.addEventListener(\"" \o Str(directive.name)
       \o "\", (event) => {\n"
       \o (IF Len(body) > 0 THEN body \o "\n" ELSE "") \o "  });\n"

RECURSIVE ExpectedListeners(_, _)
\* The listeners of the directives from the i-th on, in source order.
ExpectedListeners(directives, i) ==
  IF i > Len(directives) THEN ""
  ELSE ExpectedListener(directives[i]) \o ExpectedListeners(directives, i + 1)

\* The self-invoking function of element k.
ExpectedFunction(k) ==
  "(() => {\n  const element = document.querySelector('[data-identifier=\""
    \o AstElements[k].dataId \o "\"]');\n  if (!element) return;\n"
    \o "  const identifier = element.getAttribute(\"data-identifier\");\n"
    \o ExpectedListeners(AstElements[k].jsEvents, 1) \o "})();"

\* C21: the text compile returns has one self-invoking function for each
\* element that owns an event directive: as many functions as such
\* elements, and for each of them the function that looks the element up by
\* its dataId, returns when it is absent, and registers one listener for
\* each of its event directives, in source order, with the content of the
\* directive's block as handler body.
OneFunctionPerEventOwner ==
  Compiled =>
    /\ CountOf(Str(outcome.value), "\n(() => {\n") = Cardinality(EventOwners)
    /\ \A k \in EventOwners : Includes(Str(outcome.value), ExpectedFunction(k))

\* text.replace(/c/g, entity) over a sequence of characters
ReplaceEach(text, c, entity) ==
  Flatten([i \in 1..Len(text) |-> IF text[i] = c THEN Chars(entity) ELSE <<text[i]>>])

\* The replacements the claim lists for an attribute value, & first.
EntitiesOfAttribute(value) ==
  ReplaceEach(ReplaceEach(ReplaceEach(ReplaceEach(value, "&", "&amp;"),
                                      "\"", "&quot;"), "<", "&lt;"), ">", "&gt;")

\* The replacements the claim lists for a text child, & first.
EntitiesOfText(value) ==
  ReplaceEach(ReplaceEach(ReplaceEach(value, "&", "&amp;"), "<", "&lt;"), ">", "&gt;")

\* The entity that starts at place i of text, or the empty string.
EntityAt(text, i) ==
  LET rest == Str(SubSeq(text, i, Len(text)))
  IN CASE StartsWith(rest, "&amp;") -> "&amp;"
       [] StartsWith(rest, "&quot;") -> "&quot;"
       [] StartsWith(rest, "&lt;") -> "&lt;"
       [] StartsWith(rest, "&gt;") -> "&gt;"
       [] OTHER -> ""

CharOfEntity(entity) ==
  CASE entity = "&amp;" -> "&"
    [] entity = "&quot;" -> "\""
    [] entity = "&lt;" -> "<"
    [] entity = "&gt;" -> ">"

RECURSIVE ReplacedBack(_, _)
\* The characters of text from place i on with each of the four entities
\* replaced by the character it stands for.
ReplacedBack(text, i) ==
  IF i > Len(text) THEN <<>>
  ELSE IF EntityAt(text, i) # ""
    THEN <<CharOfEntity(EntityAt(text, i))>>
           \o ReplacedBack(text, i + Len(EntityAt(text, i)))
    ELSE <<text[i]>> \o ReplacedBack(text, i + 1)

HasNone(text, chars) == \A i \in 1..Len(text) : text[i] \notin chars

\* The attributes of element e that are written to the output with a string
\* of the source as value.
StringAttributes(e) ==
  SelectSeq(e.attributes,
            LAMBDA a : /\ a.value.type = "StringLiteral"
                       /\ getAttributeSpec(svgKeywordStore[e.name], Str(a.name)).type
                            = "string")

TextChildren(e) == SelectSeq(e.children, LAMBDA c : c.type = "Text")

\* C22: in the text compile returns, the value of every string attribute is
\* the source value with & " < > replaced by &amp; &quot; &lt; &gt; and
\* every text child is the source text with & < > replaced by &amp; &lt;
\* &gt;, & first: the emitted value has no raw " < > (a text no raw < >)
\* and replacing the entities back gives the source value.
ValuesAreEscapedOnce ==
  Compiled =>
    \A k \in 1..Len(AstElements) :
      /\ \A i \in 1..Len(StringAttributes(AstElements[k])) :
           LET a == StringAttributes(AstElements[k])[i]
               emitted == EntitiesOfAttribute(a.value.value)
           IN /\ Includes(Str(outcome.value),
                          " " \o Str(a.name) \o "=\"" \o Str(emitted) \o "\"")
              /\ HasNone(emitted, {"\"", "<", ">"})
              /\ ReplacedBack(emitted, 1) = a.value.value
      /\ \A i \in 1..Len(TextChildren(AstElements[k])) :
           LET t == TextChildren(AstElements[k])[i]
               emitted == EntitiesOfText(t.value)
           IN /\ Includes(Str(outcome.value), "  " \o Str(emitted) \o "\n")
              /\ HasNone(emitted, {"<", ">"})
              /\ ReplacedBack(emitted, 1) = t.value

\* A text with & < > " in an attribute value and in a text child compiled.
CompiledEscapedValues ==
  /\ Compiled
  /\ code = EscapedTextChildText
  /\ Includes(Str(outcome.value), "fill=\"a&amp;b\"")
  /\ Includes(Str(outcome.value), "x &lt; y &amp; z &gt; \"q\" &amp;gt;")

\* The running call has thrown.
Threw == pc = "done" /\ ~outcome.ok

HasPosition(error) ==
  /\ "position" \in DOMAIN error
  /\ error.position.line >= 1
  /\ error.position.column >= 1

EventNamePlaces ==
  {j \in 3..Len(FirstBlockTokens) :
     /\ FirstBlockTokens[j].type = "IDENTIFIER"
     /\ FirstBlockTokens[j - 1].type = "COLON"
     /\ FirstBlockTokens[j - 2].type = "IDENTIFIER"
     /\ Str(FirstBlockTokens[j - 2].value) = "on"}

AddListenerCall == "element.addEventListener(\""

\* The text from place i of text up to the next double quote.
UpToQuote(text, i) ==
  LET end == CHOOSE n \in i..Len(text) :
               /\ SubSeq(text, n, n) = "\""
               /\ \A m \in i..(n - 1) : SubSeq(text, m, m) # "\""
  IN SubSeq(text, i, end - 1)

\* The event names that the calls of addEventListener in text have as
\* first argument.
ListenerNames(text) ==
  {UpToQuote(text, i + Len(AddListenerCall)) :
     i \in {i \in 1..(Len(text) - Len(AddListenerCall)) :
              SubSeq(text, i, i + Len(AddListenerCall) - 1) = AddListenerCall}}

\* C24: a text compiles only when every on: name in the block of its
\* first element is in JS_EVENTS, a name outside the list makes parse throw
\* 'Unknown JavaScript event', and every event name that the returned script
\* passes to addEventListener is in JS_EVENTS.
EventNamesAreRecognized ==
  /\ Compiled =>
       /\ \A j \in EventNamePlaces : Str(FirstBlockTokens[j].value) \in JS_EVENTS
       /\ ListenerNames(Str(outcome.value)) \subseteq JS_EVENTS
  /\ (/\ pc = "done"
      /\ \E j \in EventNamePlaces : Str(FirstBlockTokens[j].value) \notin JS_EVENTS)
       => /\ ThrewParserError
          /\ StartsWith(outcome.error.message, "Unknown JavaScript event")

\* word stands in text at position: the character at that line and column
\* is the first of word.
StandsAt(text, position, word) ==
  \E i \in 1..Len(text) :
     /\ LineOf(text, i) = position.line
     /\ ColumnOf(text, i) = position.column
     /\ i + Len(word) - 1 <= Len(text)
     /\ SubSeq(text, i, i + Len(word) - 1) = word

UnknownEventPrefix == "Unknown JavaScript event '"

\* C28: the positions are those of the text passed to compile at every
\* nesting depth: the position of every element and of every attribute of
\* the tree is the place of its name in the text, and the position of the
\* ParserError raised for an unknown event name is the place of that name
\* in the text.
PositionsAreOfTheSource ==
  /\ \A k \in 1..Len(AstElements) :
        /\ StandsAt(code, AstElements[k].position, Chars(AstElements[k].name))
        /\ \A i \in 1..Len(AstElements[k].attributes) :
              StandsAt(code, AstElements[k].attributes[i].position,
                       AstElements[k].attributes[i].name)
  /\ (ThrewParserError /\ StartsWith(outcome.error.message, UnknownEventPrefix))
       => StandsAt(code, outcome.error.position,
                   Chars(SubSeq(outcome.error.message, Len(UnknownEventPrefix) + 1,
                                Len(outcome.error.message) - 1)))

RECURSIVE NextTokenAdvances(_, _, _)
\* The calls of nextToken on input from the lexer state lex on: each call
\* that returns a token has moved the read position forward by at least one
\* character and not beyond the end of input, and null is returned (or a
\* LexerError thrown) after at most n calls that return a token.
NextTokenAdvances(input, lex, n) ==
  LET r == Call("nextToken", <<input, lex>>)
  IN IF ~r.ok THEN TRUE
     ELSE IF r.value.type = "null" THEN r.lex.position <= Len(input)
     ELSE /\ n > 0
          /\ r.lex.position > lex.position
          /\ r.lex.position <= Len(input)
          /\ NextTokenAdvances(input, r.lex, n - 1)

\* The text inside the braces of the block of the first element, which
\* parseElementBlock passes to tokenize.
FirstBlockText ==
  IF StartsWithElement THEN SubSeq(tokens[2].value, 2, Len(tokens[2].value) - 1)
  ELSE <<>>

\* C30: tokenize ends on the text passed to compile and on the text of the
\* first element's block: every call of nextToken that returns a token has
\* advanced the read position by at least one character, never beyond the
\* end of the input, so that null is returned after at most as many calls
\* as the input has characters; and the list tokenize returns has no
\* WHITESPACE and no comment token and exactly one EOF token, the last.
TokenizeTerminates ==
  /\ NextTokenAdvances(code, NewLexer, Len(code))
  /\ NextTokenAdvances(FirstBlockText, NewLexer, Len(FirstBlockText))
  /\ tokens # <<>> =>
       /\ tokens[Len(tokens)].type = "EOF"
       /\ \A i \in 1..(Len(tokens) - 1) :
             tokens[i].type \notin {"EOF"} \cup DiscardedTypes

\* A text with runs of blanks, a line comment, a block comment and unknown
\* characters has been tokenized.
TokenizedLexicalMix ==
  /\ code = LexicalMixText
  /\ Len(tokens) = 16
  /\ tokens[6].type = "UNKNOWN"
  /\ tokens[7].type = "DOLLAR"

(***************************************************************************)
(* The tuple validator (parser.ts, ATTRIBUTE_VALIDATORS.tuple) applied to  *)
(* tuple specs, with and without a validator of their own, and to values   *)
(* of up to MaxItems items.                                                *)
(***************************************************************************)

MaxItems == 3

ItemTypeLists ==
  {<<>>, <<"number", "number">>, <<"number", "string">>,
   <<"identifier", "identifier">>, <<"string">>}

\* The specs that tupleAttr builds for a name, a length and options.
TupleSpecs ==
  {tupleAttr("size", length, FALSE, itemTypes, NoProduce) :
     length \in 1..MaxItems, itemTypes \in ItemTypeLists}
  \cup {tupleAttrWithValidator("size", length, FALSE, itemTypes, "rejectEvery") :
          length \in 1..MaxItems, itemTypes \in ItemTypeLists}

\* The literal of a kind that parseValue returns for the item at column.
ItemOf(kind, column) ==
  LET position == [line |-> 1, column |-> column]
  IN CASE kind = "number" ->
            [type |-> "NumberLiteral", value |-> <<"1">>, raw |-> <<"1">>,
             position |-> position]
       [] kind = "string" ->
            [type |-> "StringLiteral", value |-> <<"1", "0", "0", "p", "x">>,
             position |-> position]
       [] kind = "identifier" ->
            [type |-> "IdentifierLiteral", name |-> <<"x">>, position |-> position]

ItemKinds == {"number", "string", "identifier"}

\* The tuple literal whose items are of the given kinds.
TupleOf(kinds) ==
  [type |-> "TupleLiteral",
   values |-> [i \in 1..Len(kinds) |-> ItemOf(kinds[i], i + 1)],
   position |-> [line |-> 1, column |-> 1]]

\* The values handed to the validator: the tuples of one to MaxItems items,
\* and a number that is no tuple.
TupleValues ==
  UNION {{TupleOf(kinds) : kinds \in [1..m -> ItemKinds]} : m \in 1..MaxItems}
  \cup {ItemOf("number", 1)}

ValidatorInit ==
  /\ CompileIdle
  /\ CliIdle
  /\ WatchIdle
  /\ checked \in [spec : TupleSpecs, value : TupleValues]
  /\ verdict = NotChecked

\* validateAttributeValue(keyword, name, spec, value) for the chosen spec
\* and value, on an element rect.
ValidateTuple ==
  /\ verdict = NotChecked
  /\ verdict' = validateAttributeValue([name |-> "rect"], checked.spec.name,
                                        checked.spec, checked.value)
  /\ UNCHANGED <<checked, compileVars, cliVars, watchVars>>

ValidatorNext == ValidateTuple

ValidatorSpec == ValidatorInit /\ [][ValidatorNext]_vars

\* The kind of item that the spec expects at place i of a tuple.
SlotKind(spec, i) ==
  IF i <= Len(spec.itemTypes) THEN spec.itemTypes[i]
  ELSE IF spec.itemTypes # <<>> THEN spec.itemTypes[1]
  ELSE "number"

\* The items of value that stand in number slots of spec.
NumberSlots(spec, value) ==
  {i \in 1..Len(value.values) : SlotKind(spec, i) = "number"}

\* value has the arity of spec and an item of a fitting kind in every slot:
\* a number or a string in a number slot, a string in a string slot, an
\* identifier in an identifier slot.
FitsArityAndSlots(spec, value) ==
  /\ value.type = "TupleLiteral"
  /\ Len(value.values) = spec.length
  /\ \A i \in 1..Len(value.values) :
        CASE SlotKind(spec, i) = "number" ->
               value.values[i].type \in {"NumberLiteral", "StringLiteral"}
          [] SlotKind(spec, i) = "string" -> value.values[i].type = "StringLiteral"
          [] SlotKind(spec, i) = "identifier" ->
               value.values[i].type = "IdentifierLiteral"

\* What the validator of spec answers for the items of value: the validator
\* that rejects every value, or the all-numbers validator of tupleAttr.
ValidatorAnswer(spec, value) ==
  /\ spec.validator # "rejectEvery"
  /\ \A i \in 1..Len(value.values) : value.values[i].type = "NumberLiteral"

\* C27: for a tuple spec with a validator and a value that has the spec's
\* arity and fitting slot kinds, the validator decides exactly when every
\* item in a number slot is a number literal, and a validator that fails
\* gives the ParserError '... failed validation'; when a number slot holds a
\* string the validator is skipped and the value is accepted.
TupleValidatorRunsOnNumbersOnly ==
  (/\ verdict # NotChecked
   /\ checked.spec.validator # "none"
   /\ FitsArityAndSlots(checked.spec, checked.value))
    => IF \A i \in NumberSlots(checked.spec, checked.value) :
             checked.value.values[i].type = "NumberLiteral"
         THEN IF ValidatorAnswer(checked.spec, checked.value)
                THEN verdict.ok
                ELSE /\ ~verdict.ok
                     /\ verdict.error.name = "ParserError"
                     /\ verdict.error.message
                          = "Attribute 'size' on <rect> failed validation"
         ELSE verdict.ok

\* A tuple with a string in a number slot was accepted by a spec whose
\* validator rejects every value.
AcceptedWithoutValidator ==
  /\ verdict.ok
  /\ checked.spec.validator = "rejectEvery"
  /\ FitsArityAndSlots(checked.spec, checked.value)
  /\ \E i \in NumberSlots(checked.spec, checked.value) :
        checked.value.values[i].type = "StringLiteral"

(***************************************************************************)
(* runMirrow (runner.ts) as steps: the call, one step for each turn of the  *)
(* loop of processDirectory, and the return of an activation.              *)
(***************************************************************************)

Called == [state |-> "called", reason |-> ""]

Running == [state |-> "running", reason |-> ""]

Fulfilled == [state |-> "fulfilled", reason |-> ""]

Rejected(result) == [state |-> "rejected", reason |-> result.error.message]

\* The first lines of processDirectory(inputDir, outputDir, depth): the
\* output directory is made and the input directory is read, in an order
\* that the file system chooses; then the loop starts.
EnterDirectory(inputDir, outputDir, depth) ==
  LET made == mkdir(disk, outputDir)
  IN IF ~made.ok
       THEN /\ status' = Rejected(made)
            /\ UNCHANGED <<disk, frames>>
       ELSE /\ \E entries \in Orders(readdir(made.fs, inputDir)) :
                 frames' = Append(frames, [inputDir |-> inputDir,
                                           outputDir |-> outputDir,
                                           depth |-> depth, entries |-> entries])
            /\ disk' = made.fs
            /\ status' = Running

\* runMirrow(options), up to the first entry of a directory input and to
\* the end for a single-file input.
RunMirrow ==
  /\ status = Called
  /\ LET input == options.input
         output == options.output
         target == resolveOutputFilePath(output)
         parent == mkdir(disk, dirname(target))
         compiled == Call("compileMirrowFile", <<parent.fs, log, input, target>>)
         root == mkdir(disk, output)
     IN CASE input \notin DOMAIN disk ->
               /\ status' = Rejected(PlainError("Input not found"))
               /\ UNCHANGED <<disk, frames, log>>
          [] input \in DOMAIN disk /\ disk[input].kind = "dir" ->
               IF output \in DOMAIN disk /\ disk[output].kind # "dir"
                 THEN /\ status' = Rejected(PlainError(
                                      "Input is a directory, but output is not"))
                      /\ UNCHANGED <<disk, frames, log>>
                 ELSE /\ EnterDirectory(input, output, options.depth)
                      /\ UNCHANGED log
          [] OTHER ->
               IF output \in DOMAIN disk /\ disk[output].kind = "dir"
                 THEN /\ status' = Rejected(PlainError(
                                      "Input is a file, but output is a directory"))
                      /\ UNCHANGED <<disk, frames, log>>
               ELSE IF extname(input) # MIRROW_EXTENSION
                 THEN /\ status' = Rejected(PlainError(
                                      "Mirrow sources must use the .mirrow extension"))
                      /\ UNCHANGED <<disk, frames, log>>
               ELSE IF ~parent.ok
                 THEN /\ status' = Rejected(parent)
                      /\ UNCHANGED <<disk, frames, log>>
               ELSE IF ~compiled.ok
                 THEN /\ status' = Rejected(compiled)
                      /\ disk' = parent.fs
                      /\ UNCHANGED <<frames, log>>
               ELSE /\ status' = Fulfilled
                    /\ disk' = compiled.fs
                    /\ log' = compiled.log
                    /\ UNCHANGED frames
  /\ UNCHANGED <<options, compileVars, validatorVars, watchVars>>

\* The top activation of processDirectory with its first entry removed.
Continue == [frames EXCEPT ![Len(frames)].entries = Tail(@)]

\* One turn of the loop of processDirectory over the entries of the
\* directory.
ProcessEntry ==
  /\ status = Running
  /\ frames # <<>>
  /\ frames[Len(frames)].entries # <<>>
  /\ LET frame == frames[Len(frames)]
         inputPath == frame.entries[1]
         outputPath == Append(frame.outputDir, basename(inputPath))
         made == mkdir(disk, outputPath)
         isMirrow == extname(inputPath) = MIRROW_EXTENSION
         result == IF isMirrow
                     THEN Call("compileMirrowFile",
                               <<disk, log, inputPath,
                                 toSvgPath(frame.outputDir, basename(inputPath))>>)
                     ELSE Call("copyAsset", <<disk, log, inputPath, outputPath>>)
     IN CASE disk[inputPath].kind = "dir" ->
               IF skipsDirectories(frame.depth)
                 THEN /\ frames' = Continue
                      /\ UNCHANGED <<disk, status, log>>
               ELSE IF ~made.ok
                 THEN /\ status' = Rejected(made)
                      /\ UNCHANGED <<disk, frames, log>>
               ELSE /\ \E entries \in Orders(readdir(made.fs, inputPath)) :
                         frames' = Append(Continue,
                                          [inputDir |-> inputPath,
                                           outputDir |-> outputPath,
                                           depth |-> nextDepth(frame.depth),
                                           entries |-> entries])
                    /\ disk' = made.fs
                    /\ UNCHANGED <<status, log>>
          [] disk[inputPath].kind = "other" ->
               /\ frames' = Continue
               /\ UNCHANGED <<disk, status, log>>
          [] OTHER ->
               IF ~result.ok
                 THEN /\ status' = Rejected(result)
                      /\ UNCHANGED <<disk, frames, log>>
                 ELSE /\ disk' = result.fs
                      /\ log' = result.log
                      /\ frames' = Continue
                      /\ UNCHANGED status
  /\ UNCHANGED <<options, compileVars, validatorVars, watchVars>>

\* The loop of the top activation of processDirectory is over: it returns
\* to the activation that called it, or runMirrow returns.
ReturnFromDirectory ==
  /\ status = Running
  /\ frames # <<>>
  /\ frames[Len(frames)].entries = <<>>
  /\ frames' = SubSeq(frames, 1, Len(frames) - 1)
  /\ status' = IF Len(frames) = 1 THEN Fulfilled ELSE status
  /\ UNCHANGED <<options, disk, log, compileVars, validatorVars, watchVars>>

MaxDepth == 2

MIRROW_SNIPPET == "svg { size: (24, 24) }"

BROKEN_SNIPPET == "svg {"

\* The file system with the given files, and the directories above them.
TreeOf(files) ==
  LET paths == {f[1] : f \in files}
      above == UNION {{SubSeq(p, 1, k) : k \in 1..(Len(p) - 1)} : p \in paths}
  IN [p \in paths \cup above |->
        IF p \in paths THEN (CHOOSE f \in files : f[1] = p)[2] ELSE Directory]

\* The tree of the tests of the runner, with one more level.
NestedTree ==
  TreeOf({<<<<"in", "root.mirrow">>, File(MIRROW_SNIPPET)>>,
          <<<<"in", "asset.txt">>, File("static asset")>>,
          <<<<"in", "nested", "child.mirrow">>, File(MIRROW_SNIPPET)>>,
          <<<<"in", "nested", "deeper", "grandchild.mirrow">>, File(MIRROW_SNIPPET)>>,
          <<<<"in", "nested", "deeper", "deepest", "last.txt">>, File("last")>>})

\* A source and an asset with the same target, and an entry that is
\* neither a file nor a directory.
CollidingTree ==
  TreeOf({<<<<"in", "a.mirrow">>, File(MIRROW_SNIPPET)>>,
          <<<<"in", "a.svg">>, File("<svg />")>>,
          <<<<"in", "link">>, OtherEntry>>})

\* Names with other extensions, and an empty directory.
NamesTree ==
  TreeOf({<<<<"in", ".mirrow">>, File(MIRROW_SNIPPET)>>,
          <<<<"in", "UPPER.MIRROW">>, File(MIRROW_SNIPPET)>>,
          <<<<"in", "a.b.mirrow">>, File(MIRROW_SNIPPET)>>,
          <<<<"in", "empty">>, Directory>>})

\* A source that does not compile beside one that does.
BrokenTree ==
  TreeOf({<<<<"in", "bad.mirrow">>, File(BROKEN_SNIPPET)>>,
          <<<<"in", "sub", "ok.mirrow">>, File(MIRROW_SNIPPET)>>})

InputTrees == {NestedTree, CollidingTree, NamesTree, BrokenTree}

\* fs and the file system other, which has no path of fs
Beside(fs, other) ==
  [p \in DOMAIN fs \cup DOMAIN other |-> IF p \in DOMAIN fs THEN fs[p] ELSE other[p]]

NoFiles == [p \in {} |-> Directory]

\* What may be at the output path of a directory run: nothing, a
\* directory, a file.
OutputStates ==
  {NoFiles, TreeOf({<<<<"out">>, Directory>>}), TreeOf({<<<<"out">>, File("old")>>})}

Depths == {Levels(n) : n \in 0..MaxDepth} \cup {Unbound}

DirectoryRuns ==
  {[options |-> [input |-> <<"in">>, output |-> <<"out">>, depth |-> depth],
    disk |-> Beside(tree, out)] :
     tree \in InputTrees, out \in OutputStates, depth \in Depths}

SingleFileTree ==
  TreeOf({<<<<"in", "icon.mirrow">>, File(MIRROW_SNIPPET)>>,
          <<<<"in", "bad.mirrow">>, File(BROKEN_SNIPPET)>>,
          <<<<"in", "asset.txt">>, File("static asset")>>,
          <<<<"build">>, Directory>>})

SingleFileInputs ==
  {<<"in", "icon.mirrow">>, <<"in", "bad.mirrow">>, <<"in", "asset.txt">>,
   <<"in", "missing.mirrow">>}

SingleFileOutputs ==
  {<<"out", "icon-output">>, <<"out", "icon.svg">>, <<"out", "icon.png">>,
   <<"out", "icon.">>, <<"out", ".icon">>, <<"out.d", "icon">>, <<"build">>}

SingleFileRuns ==
  {[options |-> [input |-> input, output |-> output, depth |-> Levels(0)],
    disk |-> SingleFileTree] :
     input \in SingleFileInputs, output \in SingleFileOutputs}

CliInit ==
  /\ CompileIdle
  /\ ValidatorIdle
  /\ WatchIdle
  /\ \E run \in DirectoryRuns \cup SingleFileRuns :
        /\ options = run.options
        /\ disk = run.disk
  /\ frames = <<>>
  /\ status = Called
  /\ log = <<>>

CliNext ==
  \/ RunMirrow
  \/ ProcessEntry
  \/ ReturnFromDirectory

CliSpec == CliInit /\ [][CliNext]_vars

(***************************************************************************)
(* Properties of runMirrow, stated over the states of CliSpec.             *)
(***************************************************************************)

EndsWith(text, suffix) ==
  /\ Len(text) >= Len(suffix)
  /\ SubSeq(text, Len(text) - Len(suffix) + 1, Len(text)) = suffix

\* runMirrow was called with a file as input and has fulfilled.
SingleFileDone ==
  /\ status = Fulfilled
  /\ disk[options.input].kind = "file"

\* The files that exist now and did not exist before the run.
WrittenFiles ==
  {p \in DOMAIN disk : disk[p].kind = "file" /\ p \notin DOMAIN SingleFileTree}

\* C25: a run on a single file that fulfils has written the compiled text
\* to one path, which ends in .svg whatever the output option is: the
\* output path with .svg appended when its last segment has no extension,
\* and never a path with another extension.
SingleFileResultEndsInSvg ==
  SingleFileDone =>
    /\ Len(log) = 1
    /\ log[1].kind = "compiled"
    /\ log[1].from = options.input
    /\ WrittenFiles = {log[1].to}
    /\ disk[log[1].to].content = compile(Chars(disk[options.input].content)).value
    /\ EndsWith(basename(log[1].to), ".svg")
    /\ DotsOf(basename(options.output)) = {}
         => log[1].to = Append(dirname(options.output),
                               basename(options.output) \o ".svg")

\* runMirrow was called with a directory as input and has fulfilled.
DirectoryDone ==
  /\ status = Fulfilled
  /\ disk[options.input].kind = "dir"

\* The paths below root, as paths relative to root.
Below(root) ==
  {SubSeq(p, Len(root) + 1, Len(p)) :
     p \in {p \in DOMAIN disk : Len(p) > Len(root) /\ SubSeq(p, 1, Len(root)) = root}}

\* The number of directory levels between the input root and the entry at
\* the relative path: 0 for an entry of the root itself.
LevelOf(relative) == Len(relative) - 1

WithinDepth(relative) ==
  ~options.depth.finite \/ LevelOf(relative) <= options.depth.levels

\* The files of the input that the run has to process.
FilesToProcess ==
  {r \in Below(options.input) :
     disk[options.input \o r].kind = "file" /\ WithinDepth(r)}

\* A .mirrow file: a name with the extension .mirrow after a base name.
IsMirrowName(name) == EndsWith(name, ".mirrow") /\ Len(name) > Len(".mirrow")

\* The relative path that the file at the relative path r goes to: the
\* same path, with the extension .svg for a .mirrow file.
TargetOf(r) ==
  IF IsMirrowName(basename(r))
    THEN Append(dirname(r),
                SubSeq(basename(r), 1, Len(basename(r)) - Len(".mirrow")) \o ".svg")
    ELSE r

\* What the file at the relative path r is turned into.
ResultOf(r) ==
  IF IsMirrowName(basename(r))
    THEN compile(Chars(disk[options.input \o r].content)).value
    ELSE disk[options.input \o r].content

\* C26: a run on a directory that fulfils has processed exactly the files
\* at most depth levels below the input root, each once: a .mirrow file was
\* compiled to the same relative path with extension .svg, every other
\* file was copied to the same relative path; the output holds these
\* targets and no other file, each with the compiled or copied content
\* (the one written last where two files have the same target), and below
\* the output root the directories of the input down to level depth and no
\* deeper one.
DirectoryIsMirrored ==
  DirectoryDone =>
    /\ \A r \in FilesToProcess :
          /\ Cardinality({i \in 1..Len(log) : log[i].from = options.input \o r}) = 1
          /\ \E i \in 1..Len(log) :
                /\ log[i].from = options.input \o r
                /\ log[i].to = options.output \o TargetOf(r)
                /\ log[i].kind = IF IsMirrowName(basename(r))
                                   THEN "compiled" ELSE "copied"
                /\ (\A j \in (i + 1)..Len(log) : log[j].to # log[i].to)
                     => disk[log[i].to] = File(ResultOf(r))
    /\ \A i \in 1..Len(log) :
          \E r \in FilesToProcess : log[i].from = options.input \o r
    /\ {t \in Below(options.output) : disk[options.output \o t].kind = "file"}
         = {TargetOf(r) : r \in FilesToProcess}
    /\ {t \in Below(options.output) : disk[options.output \o t].kind = "dir"}
         = {r \in Below(options.input) :
              disk[options.input \o r].kind = "dir"
              /\ (~options.depth.finite \/ Len(r) <= options.depth.levels)}

\* A run with depth 1 on the tree of three levels has fulfilled: the files
\* of the root and of nested are in the output, nothing of deeper is.
MirroredOneLevel ==
  /\ DirectoryDone
  /\ options.depth = Levels(1)
  /\ <<"in", "nested", "deeper", "grandchild.mirrow">> \in DOMAIN disk
  /\ <<"out", "nested", "child.svg">> \in DOMAIN disk
  /\ <<"out", "asset.txt">> \in DOMAIN disk
  /\ <<"out", "nested", "deeper">> \notin DOMAIN disk

(***************************************************************************)
(* The task queue of watch mode (runner.ts, createTaskQueue): the watcher  *)
(* enqueues one task for each file-system event; a task is the call of     *)
(* handleEvent, which awaits file-system operations and then fulfils, or   *)
(* rejects when one of them or compile fails.                              *)
(***************************************************************************)

MaxEvents == 3

WatchEvents == {"add", "addDir", "change", "unlink", "unlinkDir"}

\* The file-system operations that handleEvent awaits for an event that it
\* does not ignore: readFile, mkdir and writeFile of compileMirrowFile for
\* add and change, one mkdir or rm for the others.
awaitsOf(event) == IF event \in {"add", "change"} THEN 3 ELSE 1

\* The number of tasks that the watcher has enqueued.
Enqueued == Cardinality({i \in 1..Len(trace) : trace[i][1] = "enqueue"})

\* A chain that counts as settled whatever runs: each task would start when
\* it is enqueued.
settledAtOnce(tasks) == TRUE

\* chain.then(() => task()): the callback runs once the promise of the
\* chain has settled, that is when the task before it has fulfilled, or has
\* rejected and the catch callback has logged the error.
chainSettled(tasks) == tasks = <<>>

WatchInit ==
  /\ CompileIdle
  /\ ValidatorIdle
  /\ CliIdle
  /\ waiting = <<>>
  /\ running = <<>>
  /\ trace = <<>>
  /\ logged = <<>>

\* watcher.on("all", ...): enqueue(() => handleEvent(event, changedPath))
Enqueue ==
  /\ Enqueued < MaxEvents
  /\ \E event \in WatchEvents :
        waiting' = Append(waiting, [id |-> Enqueued + 1, event |-> event])
  /\ trace' = Append(trace, <<"enqueue", Enqueued + 1>>)
  /\ UNCHANGED <<running, logged, compileVars, validatorVars, cliVars>>

\* The then callback of the oldest waiting task runs: task() is called and
\* handleEvent runs up to its first await.
StartTask ==
  /\ waiting # <<>>
  /\ chainSettled(running)
  /\ running' = Append(running, [id |-> waiting[1].id, event |-> waiting[1].event,
                                 left |-> awaitsOf(waiting[1].event),
                                 state |-> "pending"])
  /\ waiting' = Tail(waiting)
  /\ trace' = Append(trace, <<"start", waiting[1].id>>)
  /\ UNCHANGED <<logged, compileVars, validatorVars, cliVars>>

\* The tasks of running without the k-th.
Without(tasks, k) == SubSeq(tasks, 1, k - 1) \o SubSeq(tasks, k + 1, Len(tasks))

\* An operation that a running handler awaits has succeeded: the handler
\* goes on to its next await, or returns and its promise fulfils.
AwaitReturns ==
  /\ \E k \in 1..Len(running) :
        /\ running[k].state = "pending"
        /\ IF running[k].left > 1
             THEN /\ running' = [running EXCEPT ![k].left = @ - 1]
                  /\ UNCHANGED trace
             ELSE /\ running' = Without(running, k)
                  /\ trace' = Append(trace, <<"fulfilled", running[k].id>>)
  /\ UNCHANGED <<waiting, logged, compileVars, validatorVars, cliVars>>

\* An operation that a running handler awaits, or compile, has failed: the
\* promise of the task rejects.
TaskRejects ==
  /\ \E k \in 1..Len(running) :
        /\ running[k].state = "pending"
        /\ running' = [running EXCEPT ![k].state = "rejected"]
        /\ trace' = Append(trace, <<"rejected", running[k].id>>)
  /\ UNCHANGED <<waiting, logged, compileVars, validatorVars, cliVars>>

\* .catch((error) => { logWatchError(error); }): the error of the rejected
\* task is logged and the promise of the chain fulfils.
CatchLogs ==
  /\ \E k \in 1..Len(running) :
        /\ running[k].state = "rejected"
        /\ logged' = Append(logged, running[k].id)
        /\ running' = Without(running, k)
  /\ UNCHANGED <<waiting, trace, compileVars, validatorVars, cliVars>>

WatchNext ==
  \/ Enqueue
  \/ StartTask
  \/ AwaitReturns
  \/ TaskRejects
  \/ CatchLogs

\* The event loop runs a callback that is ready, and an operation that is
\* awaited ends, with success or with an error.
WatchSpec ==
  /\ WatchInit
  /\ [][WatchNext]_vars
  /\ WF_vars(StartTask)
  /\ WF_vars(AwaitReturns \/ TaskRejects)
  /\ WF_vars(CatchLogs)

(***************************************************************************)
(* Properties of the task queue, stated over the behaviours of WatchSpec.  *)
(***************************************************************************)

\* The places of trace where something of the given kind happened.
Places(kind) == {i \in 1..Len(trace) : trace[i][1] = kind}

\* The task id has settled: its promise has fulfilled or rejected.
Settled(id) ==
  \E i \in 1..Len(trace) : trace[i][1] \in {"fulfilled", "rejected"} /\ trace[i][2] = id

\* At most one handler runs; the tasks have started in the order in which
\* they were enqueued, each after the task before it has settled; and the
\* error of every task that has rejected is logged, or about to be.
TasksRunOneAtATime ==
  /\ Len(running) <= 1
  /\ \A i \in Places("start") :
        /\ trace[i][2] = Cardinality({j \in Places("start") : j <= i})
        /\ trace[i][2] > 1 =>
             \E j \in 1..(i - 1) :
                /\ trace[j][1] \in {"fulfilled", "rejected"}
                /\ trace[j][2] = trace[i][2] - 1
  /\ \A i \in Places("rejected") :
        \/ \E k \in 1..Len(logged) : logged[k] = trace[i][2]
        \/ \E k \in 1..Len(running) :
              running[k].id = trace[i][2] /\ running[k].state = "rejected"

\* C29: the handlers of watch mode never overlap: the tasks run one at a
\* time in the order in which they were enqueued, a task starts only after
\* the promise of the task before it has settled, a task that rejects is
\* logged, and every task that is enqueued runs and settles, whether tasks
\* before it have rejected or not.
QueueRunsTasksInOrder ==
  /\ []TasksRunOneAtATime
  /\ \A id \in 1..MaxEvents : [](Enqueued >= id => <>Settled(id))

\* A task has started after the task before it has rejected and its error
\* was logged, while a third task waits.
StartedAfterRejection ==
  /\ Len(logged) = 1
  /\ logged[1] = 1
  /\ Len(running) = 1
  /\ running[1].id = 2
  /\ Len(waiting) = 1

====
